---- MODULE Spec2Model ----
(***************************************************************************)
(* Hybrid aggregation engine and batched cost recalculation of             *)
(* hive/src/controllers/tsdb.controller.ts.                                *)
(*                                                                         *)
(* Time is counted in ticks; one UTC day is Day ticks, so that a window    *)
(* can start and end inside a day as well as on a day boundary.  Money is  *)
(* counted in units of 1e-6 (the tolerance of the recalculation), and an   *)
(* average latency is an exact fraction <<numerator, denominator>>.        *)
(***************************************************************************)
EXTENDS Integers, Sequences, FiniteSets, TLC

\* ------------------------------------------------------------------ bounds
MaxTime == 7
MaxEvents == 2

\* 24 * 60 * 60 * 1000 ms of addUtcDays, in ticks
Day == 3

Times == 0..MaxTime

\* ----------------------------------------------------------------- helpers
Min(a, b) == IF a <= b THEN a ELSE b
Max(a, b) == IF a >= b THEN a ELSE b
Abs(a) == IF a < 0 THEN -a ELSE a

RECURSIVE GCD(_, _)
GCD(a, b) == IF b = 0 THEN a ELSE GCD(b, a % b)

\* the exact fraction n / d (d > 0), in lowest terms
Rat(n, d) == LET g == GCD(Abs(n), d) IN <<n \div g, d \div g>>
RatOfInt(n) == <<n, 1>>
RatAdd(r, s) == Rat(r[1] * s[2] + s[1] * r[2], r[2] * s[2])
RatMulInt(r, k) == Rat(r[1] * k, r[2])
RatDivInt(r, k) == Rat(r[1], r[2] * k)

RECURSIVE Sum(_, _)
Sum(f, S) == IF S = {} THEN 0
             ELSE LET x == CHOOSE y \in S : TRUE IN f[x] + Sum(f, S \ {x})

SetMin(S) == CHOOSE x \in S : \A y \in S : x <= y
SetMax(S) == CHOOSE x \in S : \A y \in S : x >= y

Range(s) == {s[i] : i \in 1..Len(s)}

\* every order in which a query without a total ORDER BY can return the rows S
SqlOrders(S) == {s \in [1..Cardinality(S) -> S] : Range(s) = S}

\* ----------------------------------------------------------- the variables
VARIABLES
  events,         \* table llm_events of the team
  rollupModel,    \* llm_events_daily_by_model_ca
  rollupAgent,    \* llm_events_daily_by_agent_ca
  rollupDaily,    \* llm_events_daily_ca
  pc,             \* position of the handler
  req,            \* the request being served
  partialRanges,  \* partialRanges of the /logs handler
  queries,        \* the SQL statements the handler has issued
  resp,           \* the response sent
  mergeIn,        \* the arguments of a call of mergeResults
  mergeOut,       \* its result
  catalog,        \* the pricing catalog in the database
  pricing,        \* the pricing cache that calculateCostSync reads
  run,            \* the local variables of the /recalculate-costs handler
  history,        \* the recalculation runs that have finished
  handlers,       \* the /recalculate-costs handlers running at the same time
  now,            \* the clock of the browser, in ticks
  unmountedAt,    \* when the component using the hook was unmounted (-1: mounted)
  debounceRef,    \* debounceRef.current of useUpdateUISettings (0: null)
  timers,         \* the timeouts set and neither run nor cleared
  pendingUpdates, \* pendingUpdates.current
  mutations,      \* the calls of mutate: the payloads sent to the server
  calls,          \* the calls of debouncedUpdate made so far
  sockets,        \* the control-plane sockets, and where each one's handler is
  connectedInstances,   \* Map team -> Map socket id -> info
  httpInstances,        \* Map team -> Map instance id -> info
  teamSubscriberCounts, \* Map team -> number
  clock,          \* the clock of the server, in ticks of 30 s
  emitted,        \* the agent-status messages the last callback emitted
  eventsBuffer,   \* eventsBuffer of useAgentControlStore
  batches,        \* the batches passed to addEvents since the last clearEvents
  pool,           \* the team pool: clients handed out and release calls so far
  poolClient,     \* poolClient of the running /tsdb handler (0: undefined)
  call            \* the /tsdb request being handled

dbVars == <<events, rollupModel, rollupAgent, rollupDaily>>
logsVars == <<req, partialRanges, queries, resp>>
mergeVars == <<mergeIn, mergeOut>>
recalcVars == <<catalog, pricing, run, history, handlers>>
hookVars == <<now, unmountedAt, debounceRef, timers, pendingUpdates, mutations, calls>>
sockVars == <<sockets, connectedInstances, httpInstances, teamSubscriberCounts, clock, emitted>>
storeVars == <<eventsBuffer, batches>>
poolVars == <<pool, poolClient, call>>
vars == <<dbVars, pc, logsVars, mergeVars, recalcVars, hookVars, sockVars, storeVars, poolVars>>

\* ------------------------------------------------------ Window Partitioner
utcDayStart(d) == d - (d % Day)
addUtcDays(d, days) == d + days * Day

fullBucketStart(startDate) ==
  IF startDate = utcDayStart(startDate)
    THEN utcDayStart(startDate)
    ELSE addUtcDays(utcDayStart(startDate), 1)

fullBucketEnd(endDate) == utcDayStart(endDate)

hasFullBuckets(startDate, endDate) ==
  fullBucketStart(startDate) < fullBucketEnd(endDate)

pushRange(ranges, rangeStart, rangeEnd) ==
  IF rangeEnd <= rangeStart THEN ranges
  ELSE Append(ranges, [start |-> rangeStart, end |-> rangeEnd])

computePartialRanges(startDate, endDate) ==
  pushRange(
    pushRange(<<>>, startDate, Min(endDate, fullBucketStart(startDate))),
    Max(startDate, fullBucketEnd(endDate)), endDate)

\* ------------------------------------------------------------- aggregation
RECURSIVE RatSum(_, _)
RatSum(f, S) == IF S = {} THEN RatOfInt(0)
                ELSE LET x == CHOOSE y \in S : TRUE
                     IN RatAdd(f[x], RatSum(f, S \ {x}))

\* the values of the GROUP BY columns of one event or rollup row
GroupKeyOf(r, fields) == [f \in Range(fields) |-> r[f]]

\* one row of "SELECT <fields>, COUNT(*), SUM(..), AVG(latency_ms), MIN, MAX
\* FROM llm_events ... GROUP BY <fields>" for the events G of one group
RawRow(k, G) ==
  [ key |-> k,
    request_count |-> Cardinality(G),
    total_input_tokens |-> Sum([e \in G |-> e.usage_input_tokens], G),
    total_output_tokens |-> Sum([e \in G |-> e.usage_output_tokens], G),
    total_tokens |-> Sum([e \in G |-> e.usage_total_tokens], G),
    total_cost |-> Sum([e \in G |-> e.cost_total], G),
    avg_latency_ms |-> Rat(Sum([e \in G |-> e.latency_ms], G), Cardinality(G)),
    first_seen |-> SetMin({e.timestamp : e \in G}),
    last_seen |-> SetMax({e.timestamp : e \in G}) ]

\* WHERE "timestamp" >= $1 AND "timestamp" <= $2 GROUP BY <fields>
RawAgg(ev, lo, hi, fields) ==
  LET sel == {e \in ev : e.timestamp >= lo /\ e.timestamp <= hi}
      keys == {GroupKeyOf(e, fields) : e \in sel}
  IN {RawRow(k, {e \in sel : GroupKeyOf(e, fields) = k}) : k \in keys}

getBaseAggData(ev, rangeStart, rangeEnd, fields) ==
  IF rangeEnd <= rangeStart THEN {} ELSE RawAgg(ev, rangeStart, rangeEnd, fields)

\* one row of caSql for the rollup rows G of one group
CARow(k, G) ==
  LET n == Sum([r \in G |-> r.requests], G)
  IN [ key |-> k,
       request_count |-> n,
       total_input_tokens |-> Sum([r \in G |-> r.input_tokens], G),
       total_output_tokens |-> Sum([r \in G |-> r.output_tokens], G),
       total_tokens |-> Sum([r \in G |-> r.input_tokens], G)
                        + Sum([r \in G |-> r.output_tokens], G),
       total_cost |-> Sum([r \in G |-> r.cost_total], G),
       avg_latency_ms |->
         IF n = 0 THEN RatOfInt(0)
         ELSE RatDivInt(RatSum([r \in G |-> RatMulInt(r.avg_latency_ms, r.requests)], G), n),
       first_seen |-> SetMin({r.bucket : r \in G}),
       last_seen |-> SetMax({r.bucket : r \in G}) ]

\* WHERE bucket >= $1 AND bucket < $2 GROUP BY <fields>
CAAgg(rollup, lo, hi, fields) ==
  LET sel == {r \in rollup : r.bucket >= lo /\ r.bucket < hi}
      keys == {GroupKeyOf(r, fields) : r \in sel}
  IN {CARow(k, {r \in sel : GroupKeyOf(r, fields) = k}) : k \in keys}

\* the daily rollup of the events ev, one row per UTC day and group
RollupRow(b, G) ==
  [ bucket |-> b,
    requests |-> Cardinality(G),
    input_tokens |-> Sum([e \in G |-> e.usage_input_tokens], G),
    output_tokens |-> Sum([e \in G |-> e.usage_output_tokens], G),
    cost_total |-> Sum([e \in G |-> e.cost_total], G),
    avg_latency_ms |-> Rat(Sum([e \in G |-> e.latency_ms], G), Cardinality(G)) ]

MaterializeByModel(ev) ==
  { LET G == {e \in ev : utcDayStart(e.timestamp) = utcDayStart(x.timestamp)
                         /\ e.model = x.model /\ e.provider = x.provider}
        r == RollupRow(utcDayStart(x.timestamp), G)
    IN [ bucket |-> r.bucket, model |-> x.model, provider |-> x.provider,
         requests |-> r.requests, input_tokens |-> r.input_tokens,
         output_tokens |-> r.output_tokens, cost_total |-> r.cost_total,
         avg_latency_ms |-> r.avg_latency_ms ]
    : x \in ev }

MaterializeDaily(ev) ==
  { LET G == {e \in ev : utcDayStart(e.timestamp) = utcDayStart(x.timestamp)}
    IN RollupRow(utcDayStart(x.timestamp), G)
    : x \in ev }

MaterializeByAgent(ev) ==
  { LET G == {e \in ev : utcDayStart(e.timestamp) = utcDayStart(x.timestamp)
                         /\ e.agent = x.agent}
        r == RollupRow(utcDayStart(x.timestamp), G)
    IN [ bucket |-> r.bucket, agent |-> x.agent,
         requests |-> r.requests, input_tokens |-> r.input_tokens,
         output_tokens |-> r.output_tokens, cost_total |-> r.cost_total,
         avg_latency_ms |-> r.avg_latency_ms ]
    : x \in ev }

\* ------------------------------------------------------ Aggregation Merger
\* the value null of a column that is NULL in the row
Null == "<null>"

\* Array.prototype.join: a null element is joined as the empty string
joinString(v) == IF v = Null THEN "" ELSE v

RECURSIVE Join(_, _)
Join(parts, sep) ==
  IF parts = <<>> THEN ""
  ELSE IF Len(parts) = 1 THEN joinString(parts[1])
  ELSE joinString(parts[1]) \o sep \o Join(Tail(parts), sep)

\* keyFields.map((f) => row[f]).join("|")
mergeKey(row, keyFields) ==
  Join([i \in 1..Len(keyFields) |-> row.key[keyFields[i]]], "|")

\* the Map `merged` is a sequence of entries in insertion order
MapIndex(merged, key) ==
  IF \E i \in 1..Len(merged) : merged[i].k = key
    THEN CHOOSE i \in 1..Len(merged) : merged[i].k = key
    ELSE 0

\* mutant: the mean of the two averages, without weights
unweightedAvgLatency(existing, avgLatency, requestCount) ==
  RatDivInt(RatAdd(existing.avg_latency_ms, avgLatency), 2)

\* newCount > 0 ? newLatencySum / newCount : 0
mergedAvgLatency(existing, avgLatency, requestCount) ==
  LET newCount == existing.request_count + requestCount
      newLatencySum == RatAdd(existing.latency_sum, RatMulInt(avgLatency, requestCount))
  IN IF newCount > 0 THEN RatDivInt(newLatencySum, newCount) ELSE RatOfInt(0)

addRow(merged, row, keyFields) ==
  LET key == mergeKey(row, keyFields)
      requestCount == row.request_count
      avgLatency == row.avg_latency_ms
      i == MapIndex(merged, key)
  IN IF i = 0
       THEN Append(merged,
              [ k |-> key,
                v |-> [ key |-> [f \in Range(keyFields) |-> row.key[f]],
                        request_count |-> requestCount,
                        total_input_tokens |-> row.total_input_tokens,
                        total_output_tokens |-> row.total_output_tokens,
                        total_tokens |-> row.total_tokens,
                        total_cost |-> row.total_cost,
                        avg_latency_ms |-> avgLatency,
                        latency_sum |-> RatMulInt(avgLatency, requestCount),
                        first_seen |-> row.first_seen,
                        last_seen |-> row.last_seen ] ])
       ELSE LET existing == merged[i].v
                newCount == existing.request_count + requestCount
                newLatencySum == RatAdd(existing.latency_sum,
                                        RatMulInt(avgLatency, requestCount))
            IN [merged EXCEPT ![i].v =
                 [ key |-> existing.key,
                   request_count |-> newCount,
                   total_input_tokens |-> existing.total_input_tokens + row.total_input_tokens,
                   total_output_tokens |-> existing.total_output_tokens + row.total_output_tokens,
                   total_tokens |-> existing.total_tokens + row.total_tokens,
                   total_cost |-> existing.total_cost + row.total_cost,
                   avg_latency_ms |-> mergedAvgLatency(existing, avgLatency, requestCount),
                   latency_sum |-> newLatencySum,
                   first_seen |-> IF existing.first_seen < row.first_seen
                                    THEN existing.first_seen ELSE row.first_seen,
                   last_seen |-> IF existing.last_seen > row.last_seen
                                   THEN existing.last_seen ELSE row.last_seen ]]

RECURSIVE addRows(_, _, _)
addRows(merged, rows, keyFields) ==
  IF rows = <<>> THEN merged
  ELSE addRows(addRow(merged, Head(rows), keyFields), Tail(rows), keyFields)

\* Array.prototype.sort((a, b) => b.total_cost - a.total_cost): a stable sort
InsertByCost(sorted, r) ==
  LET n == Cardinality({i \in 1..Len(sorted) : sorted[i].total_cost >= r.total_cost})
  IN SubSeq(sorted, 1, n) \o <<r>> \o SubSeq(sorted, n + 1, Len(sorted))

RECURSIVE sortByCostDesc(_, _)
sortByCostDesc(sorted, rest) ==
  IF rest = <<>> THEN sorted
  ELSE sortByCostDesc(InsertByCost(sorted, Head(rest)), Tail(rest))

mergeResults(caRows, baseRows, keyFields) ==
  LET merged == addRows(addRows(<<>>, caRows, keyFields), baseRows, keyFields)
      values == [i \in 1..Len(merged) |->
                   [merged[i].v EXCEPT !.latency_sum = RatOfInt(0)]]
  IN sortByCostDesc(<<>>, values)

\* Array.prototype.slice(from, to) for integers from >= 0 and any integer to
slice(s, from, to) ==
  LET len == Len(s)
      lo == Min(from, len)
      hi == IF to < 0 THEN Max(len + to, 0) ELSE Min(to, len)
  IN IF hi <= lo THEN <<>> ELSE SubSeq(s, lo + 1, hi)

\* ------------------------------------------------------------ the database
\* the events the ingestion path can write; the natural key of an event is
\* (timestamp, trace_id, call_sequence)
Templates ==
  << [ timestamp |-> 0, trace_id |-> "t1", call_sequence |-> 1,
       model |-> "a", provider |-> "p", agent |-> "x",
       usage_input_tokens |-> 1, usage_output_tokens |-> 1, usage_total_tokens |-> 2,
       usage_cached_tokens |-> 0, cost_total |-> 3, latency_ms |-> 10 ],
     [ timestamp |-> 0, trace_id |-> "t2", call_sequence |-> 1,
       model |-> "a", provider |-> "q", agent |-> "x",
       usage_input_tokens |-> 1, usage_output_tokens |-> 2, usage_total_tokens |-> 3,
       usage_cached_tokens |-> 1, cost_total |-> 1, latency_ms |-> 100 ],
     [ timestamp |-> 0, trace_id |-> "t3", call_sequence |-> 1,
       model |-> "b", provider |-> "p", agent |-> "y",
       usage_input_tokens |-> 2, usage_output_tokens |-> 1, usage_total_tokens |-> 3,
       usage_cached_tokens |-> 0, cost_total |-> 3, latency_ms |-> 100 ] >>

\* { ...a, ...b } of two settings payloads; a key that an object does not
\* hold is Unset
SettingKeys == {"sidebarCollapsed", "performanceDashboardTimeRange"}
Unset == "unset"
NoUpdates == [k \in SettingKeys |-> Unset]
objectKeys(o) == {k \in SettingKeys : o[k] # Unset}
spread(a, b) == [k \in SettingKeys |-> IF b[k] # Unset THEN b[k] ELSE a[k]]

\* the store as created, and the pool with no client handed out
NoStore == eventsBuffer = <<>> /\ batches = <<>>
NoCall == [handler |-> "", path |-> "", client |-> 0, outcome |-> ""]
NoPool == pool = [connected |-> 0, released |-> <<>>] /\ poolClient = 0 /\ call = NoCall

\* the control-plane namespace is initialised and no socket has connected
SocketIds == {"s1", "s2"}
NoSocket == [pc |-> "new", teamId |-> "", sdkInstanceId |-> "", connected |-> FALSE,
             subscribed |-> FALSE]
NoSockets ==
  /\ sockets = [s \in SocketIds |-> NoSocket]
  /\ connectedInstances = <<>>
  /\ httpInstances = <<>>
  /\ teamSubscriberCounts = <<>>
  /\ clock = 0
  /\ emitted = <<>>

\* the hook is mounted and debouncedUpdate has not been called
NoHook ==
  /\ now = 0
  /\ unmountedAt = -1
  /\ debounceRef = 0
  /\ timers = {}
  /\ pendingUpdates = NoUpdates
  /\ mutations = <<>>
  /\ calls = <<>>

NoRequest == [start |-> 0, end |-> 0, group_by |-> <<>>, limit |-> 0, offset |-> 0]
NoResponse == [status |-> 0, error |-> "", source |-> "", aggregations |-> <<>>]
NoRun ==
  [ start |-> 0, end |-> 0, batch_size |-> 0, offset |-> 0,
    updated |-> 0, processed |-> 0, errors |-> <<>>, batches |-> 0,
    updates |-> <<>>, caRefreshResults |-> <<>>, status |-> 0, error |-> "" ]

\* the price of one token of each model, in the catalog
PriceLists == << [a |-> 1, b |-> 1], [a |-> 3, b |-> 1] >>

NoMergeInput == [caRows |-> <<>>, baseRows |-> <<>>, keyFields |-> <<>>]

\* POST /events: upsertEvents writes the event; the traces arrive in the order
\* of Templates and of their timestamps (the table is append-mostly)
Ingest(i, t) ==
  /\ pc = "idle"
  /\ Cardinality(events) < MaxEvents
  /\ i = Cardinality(events) + 1
  /\ \A e \in events : e.timestamp <= t
  /\ events' = events \cup {[Templates[i] EXCEPT !.timestamp = t]}
  /\ UNCHANGED <<rollupModel, rollupAgent, rollupDaily, pc, logsVars, mergeVars, recalcVars, hookVars, sockVars, storeVars, poolVars>>

\* refresh_continuous_aggregate over the whole table: the rollups are rebuilt
\* from the events as they are now
RefreshRollups ==
  /\ pc = "idle"
  /\ rollupModel' = MaterializeByModel(events)
  /\ rollupAgent' = MaterializeByAgent(events)
  /\ rollupDaily' = MaterializeDaily(events)
  /\ <<rollupModel', rollupAgent'>> # <<rollupModel, rollupAgent>>
  /\ UNCHANGED <<events, pc, logsVars, mergeVars, recalcVars, hookVars, sockVars, storeVars, poolVars>>

\* -------------------------------------------------------------- GET /logs
validGroupFields == <<"model", "agent", "provider">>
IsValidGroupField(f) == f \in Range(validGroupFields)

\* group_by.split(",").map(trim).filter(validGroupFields.includes)
groupFieldsOf(group_by) == SelectSeq(group_by, IsValidGroupField)

useModelCA(groupFields) == Len(groupFields) = 1 /\ groupFields[1] = "model"
useModelProviderCA(groupFields) ==
  Len(groupFields) = 2 /\ "model" \in Range(groupFields) /\ "provider" \in Range(groupFields)
useAgentCA(groupFields) == Len(groupFields) = 1 /\ groupFields[1] = "agent"

\* the rows of the response: the group fields and the parsed numbers of a row
aggregationOf(row, groupFields) ==
  [ key |-> [f \in Range(groupFields) |-> row.key[f]],
    request_count |-> row.request_count,
    total_input_tokens |-> row.total_input_tokens,
    total_output_tokens |-> row.total_output_tokens,
    total_tokens |-> row.total_tokens,
    total_cost |-> row.total_cost,
    avg_latency_ms |-> row.avg_latency_ms,
    first_seen |-> row.first_seen,
    last_seen |-> row.last_seen ]

IsCostDesc(s) == \A i \in 1..Len(s) - 1 : s[i].total_cost >= s[i + 1].total_cost

\* the orders ORDER BY total_cost DESC can return the rows S in
CostDescOrders(S) == {s \in SqlOrders(S) : IsCostDesc(s)}

\* LIMIT $4 OFFSET $5 (both >= 0)
LimitOffset(s, limit, offset) ==
  IF offset >= Len(s) \/ limit = 0 THEN <<>>
  ELSE SubSeq(s, offset + 1, Min(Len(s), offset + limit))

\* mutant: usedCA = true at the end of the try block
usedCA_WheneverTried(tryCA, full, caThrows) == tryCA /\ ~caThrows

\* mutant: usedCA is set before the rollup query is awaited
usedCA_BeforeQuery(tryCA, full, caThrows) == tryCA /\ full

\* usedCA = hasFullBuckets is the last statement of the try block: it is
\* reached only when no query of the block has thrown
usedCAOf(tryCA, full, caThrows) == tryCA /\ ~caThrows /\ full

\* mutant: limit and offset applied to each source before the merge
pageBeforeMerge(caRows, baseRows, keyFields, offset, limit) ==
  mergeResults(slice(caRows, offset, offset + limit),
               slice(baseRows, offset, offset + limit), keyFields)

\* mergeResults(caRows, baseRows, keyFields).slice(offset, offset + limit)
pageOfMerged(caRows, baseRows, keyFields, offset, limit) ==
  slice(mergeResults(caRows, baseRows, keyFields), offset, offset + limit)

caTableOf(groupFields) ==
  IF useModelCA(groupFields) \/ useModelProviderCA(groupFields)
    THEN "llm_events_daily_by_model_ca"
    ELSE "llm_events_daily_by_agent_ca"

keyFieldsOf(groupFields) ==
  IF useModelProviderCA(groupFields) THEN <<"model", "provider">>
  ELSE IF useModelCA(groupFields) THEN <<"model">>
  ELSE <<"agent">>

tryCAOf(groupFields) ==
  useModelCA(groupFields) \/ useModelProviderCA(groupFields) \/ useAgentCA(groupFields)

rollupOf(groupFields) ==
  IF caTableOf(groupFields) = "llm_events_daily_by_model_ca" THEN rollupModel ELSE rollupAgent

\* the rows a partial range adds to baseRows, in each order the query can return
partialRows(pr, i, keyFields) ==
  SqlOrders(IF Len(pr) >= i
              THEN getBaseAggData(events, pr[i].start, pr[i].end, keyFields)
              ELSE {})

\* GET /logs?start=..&end=..&group_by=..&limit=..&offset=.. ; caFails: the
\* rollup table cannot be read (the query on it throws); partialFail: the
\* partial range whose raw query throws (0: none), which rejects the
\* Promise.all before the rollup query is issued
LogsGrouped(startDate, endDate, group_by, limit, offset, caFails, partialFail) ==
  /\ pc = "idle"
  /\ caFails => /\ tryCAOf(groupFieldsOf(group_by)) /\ hasFullBuckets(startDate, endDate)
                /\ partialFail = 0
  /\ partialFail > 0 => /\ tryCAOf(groupFieldsOf(group_by))
                        /\ partialFail <= Len(computePartialRanges(startDate, endDate))
  /\ pc' = "responded"
  /\ req' = [start |-> startDate, end |-> endDate, group_by |-> group_by,
             limit |-> limit, offset |-> offset]
  /\ UNCHANGED <<dbVars, mergeVars, recalcVars, hookVars, sockVars, storeVars, poolVars>>
  /\ LET groupFields == groupFieldsOf(group_by) IN
     IF Len(groupFields) = 0
       THEN /\ resp' = [NoResponse EXCEPT !.status = 400, !.error = "invalid_group_by"]
            /\ UNCHANGED <<partialRanges, queries>>
       ELSE
         LET tryCA == tryCAOf(groupFields)
             keyFields == keyFieldsOf(groupFields)
             full == hasFullBuckets(startDate, endDate)
             pr == computePartialRanges(startDate, endDate)
             caThrows == tryCA /\ (partialFail > 0 \/ (full /\ caFails))
             usedCA == usedCAOf(tryCA, full, caThrows)
             partialQ == IF tryCA
                           THEN [i \in 1..Len(pr) |->
                                  [tbl |-> "llm_events", lo |-> pr[i].start,
                                   hi |-> pr[i].end, ok |-> i # partialFail]]
                           ELSE <<>>
             caQ == IF tryCA /\ full /\ partialFail = 0
                      THEN <<[tbl |-> caTableOf(groupFields),
                              lo |-> fullBucketStart(startDate),
                              hi |-> fullBucketEnd(endDate), ok |-> ~caFails]>>
                      ELSE <<>>
             fallbackQ == IF ~usedCA
                            THEN <<[tbl |-> "llm_events", lo |-> startDate,
                                    hi |-> endDate, ok |-> limit >= 0]>>
                            ELSE <<>>
         IN /\ partialRanges' = pr
            /\ queries' = partialQ \o caQ \o fallbackQ
            /\ IF usedCA
                 THEN \E r1 \in partialRows(pr, 1, keyFields),
                         r2 \in partialRows(pr, 2, keyFields),
                         caRows \in SqlOrders(CAAgg(rollupOf(groupFields),
                                                    fullBucketStart(startDate),
                                                    fullBucketEnd(endDate), keyFields)) :
                        LET rows == pageOfMerged(caRows, r1 \o r2, keyFields, offset, limit)
                        IN resp' = [status |-> 200, error |-> "",
                                    source |-> "continuous_aggregate",
                                    aggregations |->
                                      [i \in 1..Len(rows) |-> aggregationOf(rows[i], groupFields)]]
                 ELSE IF limit < 0
                   \* PostgreSQL rejects a negative LIMIT: the query throws
                   THEN resp' = [NoResponse EXCEPT !.status = 500, !.error = "logs_failed"]
                   ELSE \E ordered \in CostDescOrders(RawAgg(events, startDate, endDate, groupFields)) :
                          LET rows == LimitOffset(ordered, limit, offset)
                          IN resp' = [status |-> 200, error |-> "",
                                      source |-> "base_table",
                                      aggregations |->
                                        [i \in 1..Len(rows) |-> aggregationOf(rows[i], groupFields)]]

\* the inputs of /logs
GroupBys ==
  { <<"model">>, <<"agent">>, <<"model", "provider">>, <<"provider">>,
    <<"model", "agent">>, <<"model", "agent", "provider">>, <<"model", "foo">> }

\* parseInt(req.query.limit || "500")
DefaultLimit == 500
Pages ==
  { [limit |-> DefaultLimit, offset |-> 0], [limit |-> 1, offset |-> 0],
    [limit |-> 1, offset |-> 1], [limit |-> -1, offset |-> 0] }

Init ==
  /\ events = {}
  /\ rollupModel = {}
  /\ rollupAgent = {}
  /\ rollupDaily = {}
  /\ pc = "idle"
  /\ req = NoRequest
  /\ partialRanges = <<>>
  /\ queries = <<>>
  /\ resp = NoResponse
  /\ mergeIn = NoMergeInput
  /\ mergeOut = <<>>
  /\ catalog = PriceLists[1]
  /\ pricing = PriceLists[1]
  /\ run = NoRun
  /\ history = <<>>
  /\ handlers = <<>>
  /\ NoHook
  /\ NoSockets
  /\ NoStore
  /\ NoPool

\* a behaviour is a history of the tables followed by one /logs request, which
\* changes none of them
Next ==
  \/ \E i \in 1..Len(Templates), t \in Times : Ingest(i, t)
  \/ RefreshRollups
  \/ /\ pc = "idle"
     /\ \E s \in Times, e \in Times :
          /\ s < e
          /\ \E g \in GroupBys, p \in Pages, f \in BOOLEAN,
                pf \in 0..Len(computePartialRanges(s, e)) :
               LogsGrouped(s, e, g, p.limit, p.offset, f, pf)

Spec == Init /\ [][Next]_vars

\* ------------------------------------------------------------------ claims
Responded == pc = "responded"
Grouped == Responded /\ Len(groupFieldsOf(req.group_by)) > 0
RollupRead == \E i \in 1..Len(queries) : queries[i].tbl # "llm_events"
RollupThrew == \E i \in 1..Len(queries) : queries[i].tbl # "llm_events" /\ ~queries[i].ok
RollupsFresh ==
  /\ rollupModel = MaterializeByModel(events)
  /\ rollupAgent = MaterializeByAgent(events)

InRange(r, t) == r.start <= t /\ t < r.end
FullRange == [start |-> fullBucketStart(req.start), end |-> fullBucketEnd(req.end)]
\* the number of ranges (head, full, tail) the instant t lies in
Cover(t) ==
  Cardinality({i \in 1..Len(partialRanges) : InRange(partialRanges[i], t)})
  + (IF InRange(FullRange, t) THEN 1 ELSE 0)

\* C1: for every window start < end, the partial ranges and the full-bucket
\* range are pairwise disjoint and cover exactly [start, end), and when the
\* full range is empty partialRanges is the single range [start, end).
C1_PartitionCoverage ==
  Grouped =>
    /\ \A t \in 0..(MaxTime + 1) :
         Cover(t) = IF req.start <= t /\ t < req.end THEN 1 ELSE 0
    /\ ~hasFullBuckets(req.start, req.end)
         => partialRanges = <<[start |-> req.start, end |-> req.end]>>

\* the event e is among the rows the query q aggregates
CountedBy(q, e) ==
  IF q.tbl = "llm_events"
    THEN q.lo <= e.timestamp /\ e.timestamp <= q.hi
    ELSE q.lo <= utcDayStart(e.timestamp) /\ utcDayStart(e.timestamp) < q.hi

\* C2: in a response served from rollups every event with timestamp in
\* [start, end) is counted by exactly one of the rollup query, the head
\* partial query and the tail partial query.
C2_CountedExactlyOnce ==
  (Responded /\ resp.source = "continuous_aggregate" /\ RollupsFresh) =>
    \A e \in events :
      (req.start <= e.timestamp /\ e.timestamp < req.end) =>
        Cardinality({i \in 1..Len(queries) : CountedBy(queries[i], e)}) = 1

CountAndCost(rows) ==
  {[key |-> r.key, request_count |-> r.request_count, total_cost |-> r.total_cost] : r \in rows}

\* C3: with rollups that reflect the event table, the hybrid path returns for
\* each group the request_count and total_cost that the raw-table aggregation
\* of the same window returns.
C3_HybridEqualsRaw ==
  (Responded /\ resp.source = "continuous_aggregate" /\ RollupsFresh
     /\ req.limit = DefaultLimit /\ req.offset = 0) =>
    CountAndCost(Range(resp.aggregations))
      = CountAndCost(RawAgg(events, req.start, req.end, groupFieldsOf(req.group_by)))

\* rows offset+1 .. offset+limit of s, for limit >= 0
Page(s, offset, limit) ==
  [i \in 1..Max(0, Min(limit, Len(s) - offset)) |-> s[offset + i]]

Aggregations(rows, groupFields) ==
  [i \in 1..Len(rows) |-> aggregationOf(rows[i], groupFields)]

C6_RollupOnlyForExactVariant ==
  (Responded /\ RollupRead) =>
    Range(req.group_by) \in {{"model"}, {"model", "provider"}, {"agent"}}

\* the complete results a response can be a page of: the merge of all rollup
\* rows and all raw partial rows, or the raw aggregation of the whole window
CompleteResults ==
  LET groupFields == groupFieldsOf(req.group_by)
      keyFields == keyFieldsOf(groupFields)
  IN IF resp.source = "continuous_aggregate"
       THEN { mergeResults(caRows, r1 \o r2, keyFields) :
                r1 \in partialRows(partialRanges, 1, keyFields),
                r2 \in partialRows(partialRanges, 2, keyFields),
                caRows \in SqlOrders(CAAgg(rollupOf(groupFields), FullRange.start,
                                           FullRange.end, keyFields)) }
       ELSE CostDescOrders(RawAgg(events, req.start, req.end, groupFields))

MaxRows == 3

\* the values of the key field, in lexical order
LexOrder == <<"a", "b">>
LexRank(v) == CHOOSE i \in 1..Len(LexOrder) : LexOrder[i] = v

\* rows as the queries return them: a raw row counts at least one event, and a
\* rollup row whose requests sum to 0 has avg_latency_ms 0 (NULLIF / COALESCE)
CountsAndAverages == {[n |-> 0, avg |-> 0], [n |-> 1, avg |-> 10], [n |-> 9, avg |-> 100]}
MergeRows ==
  { [ key |-> [f \in {"model"} |-> k],
      request_count |-> c.n,
      total_input_tokens |-> c.n,
      total_output_tokens |-> 2 * c.n,
      total_tokens |-> 3 * c.n,
      total_cost |-> cost,
      avg_latency_ms |-> RatOfInt(c.avg),
      first_seen |-> 0,
      last_seen |-> Day ]
    : k \in Range(LexOrder), c \in CountsAndAverages, cost \in {1, 2} }

\* the results of one GROUP BY query: no two rows of the same group
QueryResults ==
  UNION { {s \in [1..n -> MergeRows] : \A i, j \in 1..n : i # j => s[i].key # s[j].key}
          : n \in 0..Len(LexOrder) }

\* caRows is one query result, baseRows the results of the partial ranges
InitMerge ==
  /\ events = {}
  /\ rollupModel = {}
  /\ rollupAgent = {}
  /\ rollupDaily = {}
  /\ catalog = PriceLists[1]
  /\ pricing = PriceLists[1]
  /\ run = NoRun
  /\ history = <<>>
  /\ handlers = <<>>
  /\ NoHook
  /\ NoSockets
  /\ NoStore
  /\ NoPool
  /\ req = NoRequest
  /\ partialRanges = <<>>
  /\ queries = <<>>
  /\ resp = NoResponse
  /\ pc = "merge"
  /\ mergeOut = <<>>
  /\ \E ca \in QueryResults, head \in QueryResults, tail \in QueryResults :
       /\ Len(ca) + Len(head) + Len(tail) <= MaxRows
       /\ mergeIn = [caRows |-> ca, baseRows |-> head \o tail, keyFields |-> <<"model">>]

Merge ==
  /\ pc = "merge"
  /\ pc' = "merged"
  /\ mergeOut' = mergeResults(mergeIn.caRows, mergeIn.baseRows, mergeIn.keyFields)
  /\ UNCHANGED <<dbVars, logsVars, mergeIn, recalcVars, hookVars, sockVars, storeVars, poolVars>>

NextMerge == Merge

SpecMerge == InitMerge /\ [][NextMerge]_vars

Merged == pc = "merged"
MergeInputs == mergeIn.caRows \o mergeIn.baseRows
\* the input rows of the group key k
RowsOfKey(k) == {i \in 1..Len(MergeInputs) : MergeInputs[i].key = k}

WeightedMean(I) ==
  LET n == Sum([i \in I |-> MergeInputs[i].request_count], I)
      w == RatSum([i \in I |-> RatMulInt(MergeInputs[i].avg_latency_ms,
                                         MergeInputs[i].request_count)], I)
  IN IF n = 0 THEN RatOfInt(0) ELSE RatDivInt(w, n)

\* C4: the avg_latency_ms of a merged row is the count-weighted mean
\* sum(avg_i * count_i) / sum(count_i) of the input rows of its key, and 0
\* when the combined count is 0.
C4_WeightedMean ==
  Merged =>
    \A j \in 1..Len(mergeOut) :
      mergeOut[j].avg_latency_ms = WeightedMean(RowsOfKey(mergeOut[j].key))

\* avg 10 with count 1 merged with avg 100 with count 9 gives 91, not 55
C4_Witness ==
  /\ Merged
  /\ \E j \in 1..Len(mergeOut) :
       /\ mergeOut[j].avg_latency_ms = RatOfInt(91)
       /\ mergeOut[j].request_count = 10
       /\ Cardinality(RowsOfKey(mergeOut[j].key)) = 2

\* C8: the output is ordered by total_cost descending and rows of equal
\* total_cost are ordered by group key, lexically.
C8_TieBreakByKey ==
  Merged =>
    \A i, j \in 1..Len(mergeOut) :
      i < j =>
        \/ mergeOut[i].total_cost > mergeOut[j].total_cost
        \/ /\ mergeOut[i].total_cost = mergeOut[j].total_cost
           /\ LexRank(mergeOut[i].key["model"]) < LexRank(mergeOut[j].key["model"])

\* ------------------------------------------------ POST /recalculate-costs
MaxRuns == 2
MaxBatch == 2

\* Math.abs(newCost - oldCost) > 0.000001, in units of 1e-6
Epsilon == 1

\* pricingService.calculateCostSync(..).total with the cached prices
calculateCostSync(row) ==
  pricing[row.model] * (row.usage_input_tokens + row.usage_output_tokens)

EventKey(e) ==
  [timestamp |-> e.timestamp, trace_id |-> e.trace_id, call_sequence |-> e.call_sequence]

\* mutant: the page query has no upper bound on the timestamp
InWindowFromStart(e, startDate, endDate) == e.timestamp >= startDate

InWindow(e, startDate, endDate) == e.timestamp >= startDate /\ e.timestamp <= endDate

\* the orders ORDER BY "timestamp" can return the rows S in: rows of equal
\* timestamp come in any order
TimestampOrders(S) ==
  {s \in SqlOrders(S) : \A i \in 1..Len(s) - 1 : s[i].timestamp <= s[i + 1].timestamp}

\* mutant: every row of the batch is queued, whatever its stored cost
updatesOfEveryRow(rows) ==
  [i \in 1..Len(rows) |->
    [ timestamp |-> rows[i].timestamp, trace_id |-> rows[i].trace_id,
      call_sequence |-> rows[i].call_sequence,
      new_cost |-> calculateCostSync(rows[i]) ]]

\* the rows whose recomputed cost differs from the stored one
updatesOf(rows) ==
  LET changed == SelectSeq(rows,
                   LAMBDA row : Abs(calculateCostSync(row) - row.cost_total) > Epsilon)
  IN [i \in 1..Len(changed) |->
       [ timestamp |-> changed[i].timestamp, trace_id |-> changed[i].trace_id,
         call_sequence |-> changed[i].call_sequence,
         new_cost |-> calculateCostSync(changed[i]) ]]

UpdateKey(u) ==
  [timestamp |-> u.timestamp, trace_id |-> u.trace_id, call_sequence |-> u.call_sequence]

\* UPDATE llm_events SET cost_total = updates.new_cost FROM (VALUES ..) WHERE
\* the natural key matches
applyUpdates(ev, updates) ==
  { IF \E i \in 1..Len(updates) : UpdateKey(updates[i]) = EventKey(e)
      THEN [e EXCEPT !.cost_total =
             updates[CHOOSE i \in 1..Len(updates) : UpdateKey(updates[i]) = EventKey(e)].new_cost]
      ELSE e
    : e \in ev }

\* mutant: the ungrouped daily rollup is left out of the list
casGroupedOnly == <<"llm_events_daily_by_model_ca", "llm_events_daily_by_agent_ca">>

cas == <<"llm_events_daily_ca", "llm_events_daily_by_model_ca", "llm_events_daily_by_agent_ca">>

\* refresh_continuous_aggregate(ca, from, to): the day buckets that lie wholly
\* inside [from, to] are materialised again from the events
refreshed(rollup, fresh, from, to) ==
  LET inside(r) == r.bucket >= from /\ r.bucket + Day <= to
  IN {r \in rollup : ~inside(r)} \cup {r \in fresh : inside(r)}

\* what the body of the request holds for start and end: two dates, nothing
\* (!start || !end), or text that new Date() cannot parse
BodyDates == {"dates", "missing", "unparsable"}

\* the three checks before the first query: "" when the request passes
validationError(dates, startDate, endDate) ==
  IF dates = "missing" THEN "start and end dates are required"
  ELSE IF dates = "unparsable" THEN "invalid_dates"
  ELSE IF endDate < startDate THEN "invalid_range"
  ELSE ""

\* the request is validated, the pricing cache is reloaded, the loop starts
StartRecalc(dates, startDate, endDate, batch_size) ==
  /\ pc = "idle"
  /\ Len(history) < MaxRuns
  /\ queries' = <<>>
  /\ IF validationError(dates, startDate, endDate) # ""
       THEN /\ pc' = "recalculated"
            /\ run' = [NoRun EXCEPT !.start = startDate, !.end = endDate,
                                    !.batch_size = batch_size, !.status = 400,
                                    !.error = validationError(dates, startDate, endDate)]
            /\ UNCHANGED pricing
       ELSE /\ pc' = "fetch"
            /\ pricing' = catalog
            /\ run' = [NoRun EXCEPT !.start = startDate, !.end = endDate,
                                    !.batch_size = batch_size]
  /\ UNCHANGED <<dbVars, req, partialRanges, resp, mergeVars, catalog, history, handlers, hookVars, sockVars, storeVars, poolVars>>

\* mutant: the offset is not advanced after a batch
afterBatchSameOffset(r, timedOut) ==
  [r EXCEPT !.updates = <<>>,
            !.errors = IF timedOut THEN Append(r.errors, [kind |-> "warning", batch |-> 0])
                       ELSE r.errors]

\* offset += batch_size, then the deadline check
afterBatch(r, timedOut) ==
  [r EXCEPT !.offset = r.offset + r.batch_size,
            !.updates = <<>>,
            !.errors = IF timedOut THEN Append(r.errors, [kind |-> "warning", batch |-> 0])
                       ELSE r.errors]

\* one SELECT .. ORDER BY "timestamp" LIMIT batch_size OFFSET offset and the
\* computation of the batch's updates; with no update to write the iteration
\* ends here.  selectFails: the query throws; timedOut: the deadline has passed
\* when it is checked
FetchBatch(selectFails, timedOut) ==
  /\ pc = "fetch"
  /\ UNCHANGED <<dbVars, req, partialRanges, resp, mergeVars, catalog, pricing, history, handlers, hookVars, sockVars, storeVars, poolVars>>
  /\ IF selectFails
       THEN /\ queries' = Append(queries, [kind |-> "select", offset |-> run.offset,
                                           keys |-> <<>>, ok |-> FALSE])
            /\ run' = [run EXCEPT !.status = 500, !.error = "recalculate_failed"]
            /\ pc' = "recalculated"
       ELSE \E ordered \in TimestampOrders({e \in events : InWindow(e, run.start, run.end)}) :
              LET rows == LimitOffset(ordered, run.batch_size, run.offset)
                  updates == updatesOf(rows)
                  counted == [run EXCEPT !.batches = run.batches + 1,
                                         !.processed = run.processed + Len(rows),
                                         !.updates = updates]
              IN /\ queries' = Append(queries,
                                 [kind |-> "select", offset |-> run.offset,
                                  keys |-> [i \in 1..Len(rows) |-> EventKey(rows[i])],
                                  ok |-> TRUE])
                 /\ IF Len(rows) = 0
                      THEN /\ ~timedOut
                           /\ run' = run
                           /\ pc' = "refresh"
                      ELSE IF Len(updates) = 0
                        THEN /\ run' = afterBatch(counted, timedOut)
                             /\ pc' = IF timedOut THEN "refresh" ELSE "fetch"
                        ELSE /\ ~timedOut
                             /\ run' = counted
                             /\ pc' = "update"

\* mutant: the run is one transaction, and a failing UPDATE rolls the earlier
\* batches back to the stored costs the run started from
eventsRolledBack(ev, updates, updateFails) ==
  IF updateFails
    THEN { [e EXCEPT !.cost_total =
              (CHOOSE t \in Range(Templates) : t.trace_id = e.trace_id).cost_total]
           : e \in ev }
    ELSE applyUpdates(ev, updates)

\* mutant: one UPDATE per queued row, so a failure on the last row leaves
\* the rows before it written
eventsWrittenRowByRow(ev, updates, updateFails) ==
  IF updateFails THEN applyUpdates(ev, SubSeq(updates, 1, Len(updates) - 1))
  ELSE applyUpdates(ev, updates)

\* poolClient.query(updateSql, updateValues) outside any transaction: the
\* statement commits on its own, and a failing one changes nothing
eventsAfterWrite(ev, updates, updateFails) ==
  IF updateFails THEN ev ELSE applyUpdates(ev, updates)

\* mutant: results.updated += updates.length outside the try block
batchWriteCounted(r, updateFails) ==
  [r EXCEPT !.updated = r.updated + Len(r.updates),
            !.errors = IF updateFails
                         THEN Append(r.errors, [kind |-> "batch", batch |-> r.batches])
                         ELSE r.errors]

\* try { query(updateSql); results.updated += updates.length }
\* catch { results.errors.push({batch, error}) }
batchWriteResult(r, updateFails) ==
  IF updateFails
    THEN [r EXCEPT !.errors = Append(r.errors, [kind |-> "batch", batch |-> r.batches])]
    ELSE [r EXCEPT !.updated = r.updated + Len(r.updates)]

\* the multi-row UPDATE of the batch, then offset += batch_size and the
\* deadline check.  updateFails: the statement throws
ApplyBatch(updateFails, timedOut) ==
  /\ pc = "update"
  /\ queries' = Append(queries,
                  [kind |-> "update",
                   keys |-> [i \in 1..Len(run.updates) |-> UpdateKey(run.updates[i])],
                   ok |-> ~updateFails])
  /\ events' = eventsAfterWrite(events, run.updates, updateFails)
  /\ run' = afterBatch(batchWriteResult(run, updateFails), timedOut)
  /\ pc' = IF timedOut THEN "refresh" ELSE "fetch"
  /\ UNCHANGED <<rollupModel, rollupAgent, rollupDaily, req, partialRanges, resp,
                 mergeVars, catalog, pricing, history, handlers, hookVars, sockVars, storeVars, poolVars>>

\* CALL refresh_continuous_aggregate for the next rollup of cas; after the
\* last one the response is sent.  refreshFails: the call throws
RefreshCA(refreshFails) ==
  /\ pc = "refresh"
  /\ LET i == Len(run.caRefreshResults) + 1
         ca == cas[i]
     IN /\ queries' = Append(queries, [kind |-> "refresh", ca |-> ca, from |-> run.start,
                                       to |-> run.end, ok |-> ~refreshFails])
        /\ run' = [run EXCEPT
                     !.caRefreshResults =
                        Append(run.caRefreshResults,
                               [ca |-> ca,
                                status |-> IF refreshFails THEN "error" ELSE "refreshed"]),
                     !.status = IF i = Len(cas) THEN 200 ELSE 0]
        /\ pc' = IF i = Len(cas) THEN "recalculated" ELSE "refresh"
        /\ rollupDaily' = IF ca = "llm_events_daily_ca" /\ ~refreshFails
                            THEN refreshed(rollupDaily, MaterializeDaily(events),
                                           run.start, run.end)
                            ELSE rollupDaily
        /\ rollupModel' = IF ca = "llm_events_daily_by_model_ca" /\ ~refreshFails
                            THEN refreshed(rollupModel, MaterializeByModel(events),
                                           run.start, run.end)
                            ELSE rollupModel
        /\ rollupAgent' = IF ca = "llm_events_daily_by_agent_ca" /\ ~refreshFails
                            THEN refreshed(rollupAgent, MaterializeByAgent(events),
                                           run.start, run.end)
                            ELSE rollupAgent
  /\ UNCHANGED <<events, req, partialRanges, resp, mergeVars, catalog, pricing, history, handlers, hookVars, sockVars, storeVars, poolVars>>

\* what is remembered of a finished run
SummaryOf(r) ==
  [ start |-> r.start, end |-> r.end, pricing |-> pricing,
    clean |-> r.status = 200 /\ r.errors = <<>>,
    partial |-> r.status = 200 /\ \E i \in 1..Len(r.errors) : r.errors[i].kind = "warning" ]

\* the handler returns
FinishRecalc ==
  /\ pc = "recalculated"
  /\ pc' = "idle"
  /\ history' = Append(history, SummaryOf(run))
  /\ Len(history') < MaxRuns
  /\ run' = NoRun
  /\ queries' = <<>>
  /\ UNCHANGED <<dbVars, req, partialRanges, resp, mergeVars, catalog, pricing, handlers, hookVars, sockVars, storeVars, poolVars>>

\* the pricing catalog is edited
UpdateCatalog(prices) ==
  /\ pc = "idle"
  /\ prices # catalog
  /\ catalog' = prices
  /\ UNCHANGED <<dbVars, pc, logsVars, mergeVars, pricing, run, history, handlers, hookVars, sockVars, storeVars, poolVars>>

\* the timestamps of the events of the table, and the ranges asked for
RecalcTimes == {0, 1, Day + 1, MaxTime}
RecalcWindows == {<<0, MaxTime>>, <<1, Day + 1>>, <<1, 0>>}

RecalcTables ==
  { {[Templates[i] EXCEPT !.timestamp = at[i]] : i \in {j \in DOMAIN at : at[j] >= 0}}
    : at \in [1..Min(MaxEvents, Len(Templates)) -> RecalcTimes \cup {-1}] }

InitRecalc ==
  /\ events \in RecalcTables
  /\ rollupModel = MaterializeByModel(events)
  /\ rollupAgent = MaterializeByAgent(events)
  /\ rollupDaily = MaterializeDaily(events)
  /\ pc = "idle"
  /\ req = NoRequest
  /\ partialRanges = <<>>
  /\ queries = <<>>
  /\ resp = NoResponse
  /\ mergeIn = NoMergeInput
  /\ mergeOut = <<>>
  /\ catalog = PriceLists[1]
  /\ pricing = PriceLists[1]
  /\ run = NoRun
  /\ history = <<>>
  /\ handlers = <<>>
  /\ NoHook
  /\ NoSockets
  /\ NoStore
  /\ NoPool

NextRecalc ==
  \/ \E p \in Range(PriceLists) : UpdateCatalog(p)
  \/ \E d \in BodyDates, w \in RecalcWindows, b \in 1..MaxBatch :
       StartRecalc(d, w[1], w[2], b)
  \/ \E f \in BOOLEAN, t \in BOOLEAN : FetchBatch(f, t)
  \/ \E f \in BOOLEAN, t \in BOOLEAN : ApplyBatch(f, t)
  \/ \E f \in BOOLEAN : RefreshCA(f)
  \/ FinishRecalc

SpecRecalc == InitRecalc /\ [][NextRecalc]_vars

\* ---------------------------------- one run of POST /recalculate-costs
\* one request against a table whose stored costs were computed with either
\* price list, while the catalog holds either price list
InitRun ==
  /\ events \in RecalcTables
  /\ rollupModel = MaterializeByModel(events)
  /\ rollupAgent = MaterializeByAgent(events)
  /\ rollupDaily = MaterializeDaily(events)
  /\ pc = "idle"
  /\ req = NoRequest
  /\ partialRanges = <<>>
  /\ queries = <<>>
  /\ resp = NoResponse
  /\ mergeIn = NoMergeInput
  /\ mergeOut = <<>>
  /\ catalog \in Range(PriceLists)
  /\ pricing = PriceLists[1]
  /\ run = NoRun
  /\ history = <<>>
  /\ handlers = <<>>
  /\ NoHook
  /\ NoSockets
  /\ NoStore
  /\ NoPool

NextRun ==
  \/ \E d \in BodyDates, w \in RecalcWindows, b \in 1..MaxBatch :
       StartRecalc(d, w[1], w[2], b)
  \/ \E f \in BOOLEAN, t \in BOOLEAN : FetchBatch(f, t)
  \/ \E f \in BOOLEAN, t \in BOOLEAN : ApplyBatch(f, t)
  \/ \E f \in BOOLEAN : RefreshCA(f)

SpecRun == InitRun /\ [][NextRun]_vars

Recalculated == pc = "recalculated" /\ run.status = 200
EndedByEmptyFetch ==
  \E i \in 1..Len(queries) :
    queries[i].kind = "select" /\ queries[i].ok /\ queries[i].keys = <<>>
UpdateIssued == \E i \in 1..Len(queries) : queries[i].kind = "update"

\* C9: after a run that ended on an empty fetch with an empty error list,
\* every event with timestamp in [start, end] has a stored cost_total within
\* 1e-6 of the cost the pricing lookup returns for it.
C9_AllCostsCurrent ==
  (Recalculated /\ EndedByEmptyFetch /\ run.errors = <<>>) =>
    \A e \in events :
      InWindow(e, run.start, run.end) =>
        Abs(e.cost_total - calculateCostSync(e)) <= Epsilon

\* C10: a second run over the same range, after a first run that ended on an
\* empty fetch without errors, with unchanged pricing and unchanged events,
\* reports updated = 0 and issues no UPDATE.
C10_SecondRunWritesNothing ==
  (Recalculated /\ Len(history) = 1 /\ history[1].clean
     /\ history[1].start = run.start /\ history[1].end = run.end
     /\ history[1].pricing = pricing) =>
    run.updated = 0 /\ ~UpdateIssued

\* the body of the answer of POST /recalculate-costs: res.json({message,
\* period, stats, continuous_aggregates, errors, error_count}) after the
\* refreshes, or the error body of the validation and of the catch block
MaxErrorsShown == 10
summaryBody ==
  [ message |-> "recalculation_complete",
    period |-> [start |-> run.start, end |-> run.end],
    stats |-> [processed |-> run.processed, updated |-> run.updated,
               batches |-> run.batches],
    continuous_aggregates |-> run.caRefreshResults,
    errors |-> slice(run.errors, 0, MaxErrorsShown),
    error_count |-> Len(run.errors) ]
errorBody == [error |-> run.error]

\* mutant: a run with entries in results.errors is answered as a failure
recalcResponseFailsOnErrors ==
  IF run.status = 200 /\ run.errors = <<>> THEN summaryBody ELSE errorBody

recalcResponse == IF run.status = 200 THEN summaryBody ELSE errorBody

Answered == pc = "recalculated"
TimedOut == \E i \in 1..Len(run.errors) : run.errors[i].kind = "warning"
BatchFailed == \E i \in 1..Len(run.errors) : run.errors[i].kind = "batch"
MarkedPartial(body) == "partial" \in DOMAIN body /\ body["partial"] = TRUE

\* C11: once the deadline check after a batch has found the deadline exceeded,
\* the run fetches and writes no further batch, and its response marks the run
\* as partial (partial = true).
C11_DeadlineStopsAndMarksPartial ==
  TimedOut =>
    /\ pc \notin {"fetch", "update"}
    /\ Answered => MarkedPartial(recalcResponse)

RECURSIVE rowsFetched(_)
rowsFetched(q) ==
  IF q = <<>> THEN 0
  ELSE (IF Head(q).kind = "select" THEN Len(Head(q).keys) ELSE 0) + rowsFetched(Tail(q))
FetchedKeys ==
  UNION { Range(queries[i].keys) : i \in {j \in 1..Len(queries) : queries[j].kind = "select"} }
WrittenKeys ==
  UNION { Range(queries[i].keys) :
            i \in {j \in 1..Len(queries) : queries[j].kind = "update" /\ queries[j].ok} }
AllCostsCurrent ==
  \A e \in events :
    InWindow(e, run.start, run.end) =>
      Abs(e.cost_total - calculateCostSync(e)) <= Epsilon
AfterPartialRun ==
  /\ Len(history) = 1 /\ history[1].partial
  /\ history[1].start = run.start /\ history[1].end = run.end
  /\ history[1].pricing = pricing

\* C12: a run stopped by the deadline reports as processed the number of rows
\* of the batches it fetched and has written no event outside those batches;
\* a later run over the same range that runs to exhaustion without error
\* leaves no row of the range with a stale cost.
C12_PartialRunThenRerun ==
  /\ (Recalculated /\ TimedOut) =>
       /\ run.processed = rowsFetched(queries)
       /\ WrittenKeys \subseteq FetchedKeys
  /\ (Recalculated /\ AfterPartialRun /\ EndedByEmptyFetch /\ run.errors = <<>>) =>
       AllCostsCurrent

BatchErrors(r) == Len(SelectSeq(r.errors, LAMBDA x : x.kind = "batch"))
Warnings(r) == Len(SelectSeq(r.errors, LAMBDA x : x.kind = "warning"))
UpdateFailedNow ==
  /\ pc = "update" /\ Len(queries') = Len(queries) + 1
  /\ queries'[Len(queries')].kind = "update" /\ ~queries'[Len(queries')].ok

\* C13: a failing batch UPDATE adds exactly one error entry for the batch,
\* leaves updated and the events as they were, advances the offset by
\* batch_size, and the run goes on with the next fetch; only the deadline
\* check that follows the batch can stop the loop, and the run is not failed.
C13_BatchWriteFailureIsNotFatal ==
  [][ UpdateFailedNow =>
        /\ BatchErrors(run') = BatchErrors(run) + 1
        /\ run'.errors[Len(run.errors) + 1] = [kind |-> "batch", batch |-> run.batches]
        /\ run'.updated = run.updated
        /\ events' = events
        /\ run'.offset = run.offset + run.batch_size
        /\ run'.status = 0
        /\ IF Warnings(run') > Warnings(run) THEN pc' = "refresh" ELSE pc' = "fetch"
    ]_vars

\* a failed UPDATE was followed by the fetch of the next batch
C13_Witness ==
  \E i \in 1..Len(queries) :
    /\ queries[i].kind = "update" /\ ~queries[i].ok
    /\ \E j \in (i + 1)..Len(queries) :
         queries[j].kind = "select" /\ queries[j].ok /\ queries[j].keys # <<>>

\* the rollups materialised from llm_events
DependentRollups ==
  {"llm_events_daily_ca", "llm_events_daily_by_model_ca", "llm_events_daily_by_agent_ca"}
Refreshes == SelectSeq(queries, LAMBDA q : q.kind = "refresh")
LoopEnded ==
  /\ Answered /\ run.status # 400
  /\ \A i \in 1..Len(queries) : queries[i].kind = "select" => queries[i].ok

\* C14: when the batch loop has ended, each dependent rollup is refreshed
\* exactly once, with the range [start, end] of the request and after the last
\* batch; a failed refresh is reported as error for that rollup alone, and the
\* answer is the 200 summary with the statistics of the run.
C14_RefreshEachRollupOnce ==
  LoopEnded =>
    /\ \A ca \in DependentRollups :
         Cardinality({i \in 1..Len(Refreshes) : Refreshes[i].ca = ca}) = 1
    /\ Len(Refreshes) = Cardinality(DependentRollups)
    /\ \A i \in 1..Len(Refreshes) :
         /\ Refreshes[i].from = run.start /\ Refreshes[i].to = run.end
         /\ Refreshes[i] = queries[Len(queries) - Len(Refreshes) + i]
         /\ recalcResponse.continuous_aggregates[i] =
              [ca |-> Refreshes[i].ca,
               status |-> IF Refreshes[i].ok THEN "refreshed" ELSE "error"]
    /\ run.status = 200
    /\ recalcResponse.message = "recalculation_complete"
    /\ recalcResponse.stats =
         [processed |-> run.processed, updated |-> run.updated, batches |-> run.batches]

\* a run that wrote a batch, then failed to refresh one rollup and refreshed a
\* later one
C14_Witness ==
  /\ LoopEnded /\ run.updated > 0
  /\ \E i \in 1..Len(Refreshes) :
       ~Refreshes[i].ok /\ \E j \in (i + 1)..Len(Refreshes) : Refreshes[j].ok

SelectsOk == \A i \in 1..Len(queries) : queries[i].kind = "select" => queries[i].ok
BatchesFetched ==
  Cardinality({i \in 1..Len(queries) : queries[i].kind = "select" /\ queries[i].keys # <<>>})
RECURSIVE rowsWritten(_)
rowsWritten(q) ==
  IF q = <<>> THEN 0
  ELSE (IF Head(q).kind = "update" /\ Head(q).ok THEN Len(Head(q).keys) ELSE 0)
       + rowsWritten(Tail(q))

C16_AppliedBatchesStay ==
  \A e \in events :
    EventKey(e) \in WrittenKeys => e.cost_total = calculateCostSync(e)

\* a batch was written, and afterwards a batch write failed, a fetch failed,
\* the deadline was hit or a refresh failed
C16_Witness ==
  /\ Answered
  /\ \E i \in 1..Len(queries) :
       /\ queries[i].kind = "update" /\ queries[i].ok
       /\ \E j \in (i + 1)..Len(queries) :
            /\ ~queries[j].ok
            /\ queries[j].kind \in {"update", "select"}
  /\ \E e \in events : EventKey(e) \in WrittenKeys

Selects == SelectSeq(queries, LAMBDA q : q.kind = "select")

\* C17: the batches of a run come in ascending timestamp order, and the rows
\* fetched so far are exactly the events of the range with the smallest
\* timestamps: each fetched once, and no event of the range that was not
\* fetched is older than a fetched one, so that the run can be resumed from
\* the last processed timestamp.
C17_ProcessedIsTimestampPrefix ==
  /\ \A i \in 1..Len(Selects) : \A j \in (i + 1)..Len(Selects) :
       \A a \in Range(Selects[i].keys), b \in Range(Selects[j].keys) :
         a.timestamp <= b.timestamp
  /\ Cardinality(FetchedKeys) = rowsFetched(queries)
  /\ \A e \in events :
       (InWindow(e, run.start, run.end) /\ EventKey(e) \notin FetchedKeys) =>
         \A k \in FetchedKeys : k.timestamp <= e.timestamp

\* ------------------------------------------------------------ GET /metrics
\* arithmetic on exact fractions <<n, d>> with d > 0
RatSub(r, s) == Rat(r[1] * s[2] - s[1] * r[2], r[2] * s[2])
RatMul(r, s) == Rat(r[1] * s[1], r[2] * s[2])
RatDiv(r, s) == IF s[1] > 0 THEN Rat(r[1] * s[2], r[2] * s[1])
                ELSE Rat(-(r[1] * s[2]), r[2] * (-s[1]))
Zero == <<0, 1>>

\* a JavaScript value read from a query row or computed by the handler: a
\* number (or numeric string), a string that is no number, or undefined / null
Number(r) == [kind |-> "number", v |-> r]
Undefined == [kind |-> "undefined", v |-> Zero]
Text == [kind |-> "text", v |-> Zero]

\* parseFloat: NaN for what is no number
parseFloat(val) == [nan |-> val.kind # "number", v |-> val.v]
\* parseInt: the integer part, NaN for what is no number
parseInt(val) ==
  [nan |-> val.kind # "number",
   v |-> IF val.v[1] >= 0 THEN <<val.v[1] \div val.v[2], 1>>
         ELSE <<-((-val.v[1]) \div val.v[2]), 1>>]
\* x || 0: NaN and 0 are falsy
orZero(x) == IF x.nan \/ x.v[1] = 0 THEN Zero ELSE x.v
num(val) == orZero(parseFloat(val))
int(val) == orZero(parseInt(val))

\* Math.round: the nearest integer, halves rounded up
MathRound(r) == (2 * r[1] + r[2]) \div (2 * r[2])
\* Math.round(x * 100) / 100 and Math.round(x * 10000) / 10000
round2(r) == Rat(MathRound(RatMulInt(r, 100)), 100)
round4(r) == Rat(MathRound(RatMulInt(r, 10000)), 10000)

\* mutant: a generic divide-by-zero guard, 0 whenever prev is 0
pctChangeGenericGuard(curr, prev) ==
  LET c == num(curr)
      p == num(prev)
  IN IF p[1] = 0 THEN Zero ELSE RatMulInt(RatDiv(RatSub(c, p), p), 100)

pctChange(curr, prev) ==
  LET c == num(curr)
      p == num(prev)
  IN IF p[1] = 0 THEN (IF c[1] > 0 THEN <<100, 1>> ELSE Zero)
     ELSE RatMulInt(RatDiv(RatSub(c, p), p), 100)


\* the derived metrics of one period's row
cacheHitRate(row) ==
  LET inputTokens == num(row.total_input_tokens)
      cachedTokens == num(row.cached_tokens)
  IN IF inputTokens[1] > 0 THEN RatMulInt(RatDiv(cachedTokens, inputTokens), 100) ELSE Zero

streamingRate(row) ==
  LET totalRequests == int(row.total_requests)
      streamingRequests == int(row.streaming_requests)
  IN IF totalRequests[1] > 0
       THEN RatMulInt(RatDiv(streamingRequests, totalRequests), 100) ELSE Zero

avgCallsPerTrace(row) ==
  LET totalRequests == int(row.total_requests)
      uniqueTraces == int(row.unique_traces)
  IN IF uniqueTraces[1] > 0 THEN RatDiv(totalRequests, uniqueTraces) ELSE Zero

\* mutant: the cost per token, not per 1000 tokens
costPerToken(row) ==
  LET totalTokens == num(row.total_tokens)
      totalCost == num(row.total_cost)
  IN IF totalTokens[1] > 0 THEN RatDiv(totalCost, totalTokens) ELSE Zero

costPer1kTokens(row) ==
  LET totalTokens == num(row.total_tokens)
      totalCost == num(row.total_cost)
  IN IF totalTokens[1] > 0 THEN RatDiv(totalCost, RatDivInt(totalTokens, 1000)) ELSE Zero

avgTokensPerRequest(row) ==
  LET totalRequests == int(row.total_requests)
      totalTokens == num(row.total_tokens)
  IN IF totalRequests[1] > 0 THEN RatDiv(totalTokens, totalRequests) ELSE Zero

avgCostPerRequest(row) ==
  LET totalRequests == int(row.total_requests)
      totalCost == num(row.total_cost)
  IN IF totalRequests[1] > 0 THEN RatDiv(totalCost, totalRequests) ELSE Zero

\* one {value, unit, change_pct} entry of the response
metric(value, unit, curr, prev) ==
  [value |-> value, unit |-> unit, change_pct |-> pctChange(curr, prev)]
counter(current, previous, f, unit) ==
  metric(int(current[f]), unit, current[f], previous[f])
rounded(current, previous, f, unit) ==
  metric(round2(num(current[f])), unit, current[f], previous[f])

\* the metrics object answered by GET /metrics
metricsOf(current, previous) ==
  [ status |-> 200,
    volume |->
      [ total_requests |-> counter(current, previous, "total_requests", "requests"),
        unique_traces |-> counter(current, previous, "unique_traces", "traces"),
        unique_users |-> counter(current, previous, "unique_users", "users"),
        avg_calls_per_trace |->
          metric(round2(avgCallsPerTrace(current)), "calls/trace",
                 Number(avgCallsPerTrace(current)), Number(avgCallsPerTrace(previous))) ],
    tokens |->
      [ total_input_tokens |-> counter(current, previous, "total_input_tokens", "tokens"),
        total_output_tokens |-> counter(current, previous, "total_output_tokens", "tokens"),
        total_tokens |-> counter(current, previous, "total_tokens", "tokens"),
        cached_tokens |-> counter(current, previous, "cached_tokens", "tokens"),
        reasoning_tokens |-> counter(current, previous, "reasoning_tokens", "tokens"),
        cache_hit_rate |->
          metric(round2(cacheHitRate(current)), "%",
                 Number(cacheHitRate(current)), Number(cacheHitRate(previous))),
        avg_tokens_per_request |->
          metric(<<MathRound(avgTokensPerRequest(current)), 1>>, "tokens/req",
                 Number(avgTokensPerRequest(current)),
                 Number(avgTokensPerRequest(previous))) ],
    performance |->
      [ avg_latency_ms |-> rounded(current, previous, "avg_latency_ms", "ms"),
        p50_latency_ms |-> rounded(current, previous, "p50_latency_ms", "ms"),
        p95_latency_ms |-> rounded(current, previous, "p95_latency_ms", "ms"),
        p99_latency_ms |-> rounded(current, previous, "p99_latency_ms", "ms"),
        max_latency_ms |-> rounded(current, previous, "max_latency_ms", "ms") ],
    cost |->
      [ total_cost |-> rounded(current, previous, "total_cost", "USD"),
        avg_cost_per_request |->
          metric(round4(avgCostPerRequest(current)), "USD/req",
                 Number(avgCostPerRequest(current)), Number(avgCostPerRequest(previous))),
        cost_per_1k_tokens |->
          metric(round4(costPer1kTokens(current)), "USD/1k tokens",
                 Number(costPer1kTokens(current)), Number(costPer1kTokens(previous))) ],
    usage_patterns |->
      [ streaming_rate |->
          metric(round2(streamingRate(current)), "%",
                 Number(streamingRate(current)), Number(streamingRate(previous))) ] ]


\* the rows the aggregate query can return for a period with up to
\* MaxRequests events, and the {} that stands for a period without events
MaxRequests == 2
NoRow ==
  [ f \in { "total_requests", "unique_traces", "unique_users", "total_input_tokens",
            "total_output_tokens", "total_tokens", "cached_tokens", "reasoning_tokens",
            "total_cost", "avg_latency_ms", "p50_latency_ms", "p95_latency_ms",
            "p99_latency_ms", "max_latency_ms", "streaming_requests" } |-> Undefined ]
MetricRows ==
  { [ total_requests |-> Number(<<n, 1>>),
      unique_traces |-> Number(<<tr, 1>>),
      unique_users |-> Number(<<1, 1>>),
      total_input_tokens |-> Number(<<tok[1], 1>>),
      total_output_tokens |-> Number(<<Max(tot - tok[1], 0), 1>>),
      total_tokens |-> Number(<<tot, 1>>),
      cached_tokens |-> Number(<<tok[2], 1>>),
      reasoning_tokens |-> Number(Zero),
      total_cost |-> Number(cost),
      avg_latency_ms |-> lat, p50_latency_ms |-> lat, p95_latency_ms |-> lat,
      p99_latency_ms |-> lat, max_latency_ms |-> lat,
      streaming_requests |-> Number(<<str, 1>>) ]
    : n \in 1..MaxRequests, tr \in 1..MaxRequests,
      tok \in {<<0, 0>>, <<2, 0>>, <<2, 1>>}, tot \in {0, 3},
      cost \in {Zero, <<1, 2>>}, lat \in {Undefined, Text, Number(<<10, 1>>)},
      str \in 0..MaxRequests }
\* at most one trace per request; the period's requests all stream and have a
\* latency, or none streams and the latency is NULL or no number
PeriodRows ==
  {NoRow} \cup
  {r \in MetricRows :
     /\ r.unique_traces.v[1] <= r.total_requests.v[1]
     /\ IF r.avg_latency_ms.kind = "number"
          THEN r.streaming_requests.v[1] = r.total_requests.v[1]
          ELSE r.streaming_requests.v[1] = 0}

\* GET /metrics: one aggregate query over both periods, then the response.
\* queryFails: the query throws
GetMetrics(current, previous, queryFails) ==
  /\ pc = "idle"
  /\ pc' = "responded"
  /\ queries' = Append(queries, [tbl |-> "llm_events", kind |-> "metrics",
                                 current |-> current, previous |-> previous,
                                 ok |-> ~queryFails])
  /\ resp' = IF queryFails THEN [status |-> 500, error |-> "metrics_failed"]
             ELSE metricsOf(current, previous)
  /\ UNCHANGED <<dbVars, req, partialRanges, mergeVars, recalcVars, hookVars, sockVars, storeVars, poolVars>>

NextMetrics ==
  /\ pc = "idle"
  /\ \E current \in PeriodRows, previous \in PeriodRows, f \in BOOLEAN :
       /\ f => (current = NoRow /\ previous = NoRow)
       /\ GetMetrics(current, previous, f)

SpecMetrics == Init /\ [][NextMetrics]_vars


MetricsAnswered ==
  pc = "responded" /\ Len(queries) = 1 /\ queries[1].kind = "metrics" /\ resp.status = 200
CurrentRow == queries[1].current
PreviousRow == queries[1].previous

\* the number an input stands for: 0 when it is missing or no number
ValueOf(val) == IF val.kind = "number" THEN val.v ELSE Zero
RatLeq(r, s) == r[1] * s[2] <= s[1] * r[2]
RatAbs(r) == <<Abs(r[1]), r[2]>>
\* numerator / denominator, 0 when the denominator is 0
Ratio(n, d) == IF d[1] = 0 THEN Zero ELSE RatDiv(n, d)
\* pct is the percent change from prev to curr under the zero-guarded policy
IsPctChange(pct, curr, prev) ==
  IF prev[1] = 0 THEN pct = (IF curr[1] > 0 THEN <<100, 1>> ELSE Zero)
  ELSE RatMul(pct, prev) = RatMulInt(RatSub(curr, prev), 100)

ExpectedCacheHitRate(row) ==
  RatMulInt(Ratio(ValueOf(row.cached_tokens), ValueOf(row.total_input_tokens)), 100)
ExpectedStreamingRate(row) ==
  RatMulInt(Ratio(ValueOf(row.streaming_requests), ValueOf(row.total_requests)), 100)
ExpectedCallsPerTrace(row) ==
  Ratio(ValueOf(row.total_requests), ValueOf(row.unique_traces))
ExpectedCostPer1kTokens(row) ==
  Ratio(RatMulInt(ValueOf(row.total_cost), 1000), ValueOf(row.total_tokens))
ExpectedTokensPerRequest(row) ==
  Ratio(ValueOf(row.total_tokens), ValueOf(row.total_requests))
ExpectedCostPerRequest(row) ==
  Ratio(ValueOf(row.total_cost), ValueOf(row.total_requests))

PlainMetrics ==
  { <<"volume", "total_requests">>, <<"volume", "unique_traces">>,
    <<"volume", "unique_users">>, <<"tokens", "total_input_tokens">>,
    <<"tokens", "total_output_tokens">>, <<"tokens", "total_tokens">>,
    <<"tokens", "cached_tokens">>, <<"tokens", "reasoning_tokens">>,
    <<"performance", "avg_latency_ms">>, <<"performance", "p50_latency_ms">>,
    <<"performance", "p95_latency_ms">>, <<"performance", "p99_latency_ms">>,
    <<"performance", "max_latency_ms">>, <<"cost", "total_cost">> }

\* C18: every change_pct of the /metrics response is (curr - prev) / prev * 100
\* when prev is not 0, 100 when prev is 0 and curr > 0, and 0 otherwise, with a
\* missing or unparsable input taken as 0; for a derived ratio curr and prev
\* are the ratios of the two periods.
C18_ZeroGuardedPercentChange ==
  MetricsAnswered =>
    /\ \A m \in PlainMetrics :
         IsPctChange(resp[m[1]][m[2]].change_pct,
                     ValueOf(CurrentRow[m[2]]), ValueOf(PreviousRow[m[2]]))
    /\ IsPctChange(resp.volume.avg_calls_per_trace.change_pct,
                   ExpectedCallsPerTrace(CurrentRow), ExpectedCallsPerTrace(PreviousRow))
    /\ IsPctChange(resp.tokens.cache_hit_rate.change_pct,
                   ExpectedCacheHitRate(CurrentRow), ExpectedCacheHitRate(PreviousRow))
    /\ IsPctChange(resp.tokens.avg_tokens_per_request.change_pct,
                   ExpectedTokensPerRequest(CurrentRow),
                   ExpectedTokensPerRequest(PreviousRow))
    /\ IsPctChange(resp.cost.avg_cost_per_request.change_pct,
                   ExpectedCostPerRequest(CurrentRow), ExpectedCostPerRequest(PreviousRow))
    /\ IsPctChange(resp.cost.cost_per_1k_tokens.change_pct,
                   ExpectedCostPer1kTokens(CurrentRow),
                   ExpectedCostPer1kTokens(PreviousRow))
    /\ IsPctChange(resp.usage_patterns.streaming_rate.change_pct,
                   ExpectedStreamingRate(CurrentRow), ExpectedStreamingRate(PreviousRow))

\* one response with a change from zero (100), a change from a non-zero value
\* (-50) and an input that is no number
C18_Witness ==
  /\ MetricsAnswered
  /\ PreviousRow.total_cost.v[1] = 0 /\ CurrentRow.total_cost.v[1] > 0
  /\ resp.cost.total_cost.change_pct = <<100, 1>>
  /\ resp.volume.total_requests.change_pct = <<-50, 1>>
  /\ CurrentRow.avg_latency_ms.kind = "text"
  /\ PreviousRow.avg_latency_ms.kind = "number"
  /\ resp.performance.avg_latency_ms.change_pct = <<-100, 1>>


\* value is x rounded to a multiple of 1 / steps
IsRounded(value, x, steps) ==
  /\ steps % value[2] = 0
  /\ RatLeq(RatMulInt(RatAbs(RatSub(value, x)), 2 * steps), <<1, 1>>)
Finite(entry) == entry.value[2] > 0 /\ entry.change_pct[2] > 0

\* C19: for either period each derived ratio is 0 when its denominator is 0
\* and numerator / denominator otherwise: cache-hit and streaming rate in
\* percent, calls per trace, cost per 1000 tokens, tokens and cost per
\* request; the response reports the current period's ratios, rounded, and
\* every number in it is finite.
C19_ZeroGuardedRatios ==
  MetricsAnswered =>
    /\ \A row \in {CurrentRow, PreviousRow} :
         /\ cacheHitRate(row) = ExpectedCacheHitRate(row)
         /\ streamingRate(row) = ExpectedStreamingRate(row)
         /\ avgCallsPerTrace(row) = ExpectedCallsPerTrace(row)
         /\ costPer1kTokens(row) = ExpectedCostPer1kTokens(row)
         /\ avgTokensPerRequest(row) = ExpectedTokensPerRequest(row)
         /\ avgCostPerRequest(row) = ExpectedCostPerRequest(row)
    /\ IsRounded(resp.tokens.cache_hit_rate.value, ExpectedCacheHitRate(CurrentRow), 100)
    /\ IsRounded(resp.usage_patterns.streaming_rate.value,
                 ExpectedStreamingRate(CurrentRow), 100)
    /\ IsRounded(resp.volume.avg_calls_per_trace.value,
                 ExpectedCallsPerTrace(CurrentRow), 100)
    /\ IsRounded(resp.cost.cost_per_1k_tokens.value,
                 ExpectedCostPer1kTokens(CurrentRow), 10000)
    /\ IsRounded(resp.tokens.avg_tokens_per_request.value,
                 ExpectedTokensPerRequest(CurrentRow), 1)
    /\ IsRounded(resp.cost.avg_cost_per_request.value,
                 ExpectedCostPerRequest(CurrentRow), 10000)
    /\ \A section \in {"volume", "tokens", "performance", "cost", "usage_patterns"} :
         \A name \in DOMAIN resp[section] : Finite(resp[section][name])

\* a period with requests and cost but no tokens at all, compared with a
\* period without events
C19_Witness ==
  /\ MetricsAnswered
  /\ PreviousRow = NoRow
  /\ CurrentRow.total_requests.v[1] > 1
  /\ CurrentRow.total_tokens.v[1] = 0 /\ CurrentRow.total_input_tokens.v[1] = 0
  /\ CurrentRow.total_cost.v[1] > 0
  /\ resp.cost.cost_per_1k_tokens.value = Zero
  /\ resp.cost.avg_cost_per_request.value[1] > 0


\* C20: a /logs request whose window is malformed (end not after start) or
\* whose limit or offset is negative is answered with a 400 validation error
\* before any query against the event or rollup tables is issued.
C20_InvalidRequestRejected ==
  (Responded /\ (req.end <= req.start \/ req.limit < 0 \/ req.offset < 0)) =>
    resp.status = 400 /\ queries = <<>>

\* C21: a grouped request (with a valid page, limit >= 0) naming a group
\* field outside {model, agent, provider} is answered 400 with no query
\* issued; it is never served as if the supported fields were the whole
\* request.
NamesUnsupportedField == \E i \in 1..Len(req.group_by) : ~IsValidGroupField(req.group_by[i])

C21_UnsupportedFieldRejected ==
  (Responded /\ NamesUnsupportedField /\ req.limit >= 0) =>
    resp.status = 400 /\ queries = <<>>

\* C22: every step of a recalculation run leaves the event table as it was
\* except for the cost_total of events whose timestamp lies in [start, end]:
\* no event is inserted or deleted, no other field changes, events outside the
\* range stay untouched; a request rejected by validation issues no statement
\* and changes neither the events nor a rollup.
WithoutCost(e) == [e EXCEPT !.cost_total = 0]
SameButCosts(before, after) ==
  /\ Cardinality(after) = Cardinality(before)
  /\ {WithoutCost(e) : e \in after} = {WithoutCost(e) : e \in before}
Rejected400 == pc = "recalculated" /\ run.status = 400

C22_OnlyCostsInRangeChange ==
  [][ /\ SameButCosts(events, events')
      /\ \A e \in events \ events' : run.start <= e.timestamp /\ e.timestamp <= run.end
      /\ Rejected400' => queries' = <<>> /\ UNCHANGED dbVars ]_vars

\* a run has rewritten a cost inside its range while the table holds an event
\* outside the range
C22_Witness ==
  /\ Recalculated
  /\ \E i \in 1..Len(queries) : queries[i].kind = "update" /\ queries[i].ok
  /\ \E e \in events : e.timestamp < run.start \/ e.timestamp > run.end
  /\ \E e \in events : \E i \in 1..Len(Templates) :
       /\ e.trace_id = Templates[i].trace_id
       /\ e.cost_total # Templates[i].cost_total

\* C23: after a run in which every rollup refresh succeeded, for every UTC
\* day that holds an event the run has updated, the cost_total of that day in
\* each dependent rollup is the sum of cost_total of that day's events, the
\* first and the last day of the range included.
AllRefreshed ==
  /\ Recalculated
  /\ \A i \in 1..Len(run.caRefreshResults) : run.caRefreshResults[i].status = "refreshed"
UpdatedDays == {utcDayStart(k.timestamp) : k \in WrittenKeys}
CostOfDay(rollup, day) ==
  LET rows == {r \in rollup : r.bucket = day}
  IN Sum([r \in rows |-> r.cost_total], rows)
EventCostOfDay(day) ==
  LET G == {e \in events : utcDayStart(e.timestamp) = day}
  IN Sum([e \in G |-> e.cost_total], G)

C23_RollupsMatchUpdatedDays ==
  AllRefreshed =>
    \A day \in UpdatedDays :
      /\ CostOfDay(rollupDaily, day) = EventCostOfDay(day)
      /\ CostOfDay(rollupModel, day) = EventCostOfDay(day)
      /\ CostOfDay(rollupAgent, day) = EventCostOfDay(day)

\* --------------------- POST /recalculate-costs served twice at the same time
\* Every request runs its own invocation of the handler, with its own local
\* variables and its own database connection; the pricing cache is the one
\* object of the process.  Between two awaits an invocation runs alone, so the
\* steps of an invocation are: the validation and the pricing reload, the
\* SELECT of a page, the loop body up to the UPDATE, the UPDATE, each refresh.
\* In the race no SELECT and no refresh throws: a failing SELECT ends the
\* invocation with 500, a failing refresh leaves a rollup as it is, and
\* neither writes to the events.
Handlers == {"A", "B"}
NoHandler == [pc |-> "idle", rows |-> <<>>, r |-> NoRun]

RaceWindows == {w \in RecalcWindows : validationError("dates", w[1], w[2]) = ""}

\* the tables of the race: events at times that lie in every range of
\* RaceWindows, so that the ranges of two runs overlap on them
RaceTimes == {t \in RecalcTimes : \A w \in RaceWindows : w[1] <= t /\ t <= w[2]}
RaceTables ==
  { {[Templates[i] EXCEPT !.timestamp = at[i]] : i \in {j \in DOMAIN at : at[j] >= 0}}
    : at \in [1..Min(MaxEvents, Len(Templates)) -> RaceTimes \cup {-1}] }

\* the request passes the validation; await loadPricingFromDb(true)
BeginRun(h, startDate, endDate, batch_size) ==
  /\ handlers[h].pc = "idle"
  \* the invocations are alike: A is the one that starts first
  /\ h = "B" => handlers["A"].pc # "idle"
  /\ validationError("dates", startDate, endDate) = ""
  /\ pricing' = catalog
  /\ handlers' = [handlers EXCEPT ![h] =
                    [pc |-> "select", rows |-> <<>>,
                     r |-> [NoRun EXCEPT !.start = startDate, !.end = endDate,
                                         !.batch_size = batch_size]]]
  /\ UNCHANGED <<dbVars, pc, logsVars, mergeVars, catalog, run, history, hookVars, sockVars, storeVars, poolVars>>

\* await poolClient.query(selectSql): the database runs the page query
SelectBatch(h) ==
  /\ handlers[h].pc = "select"
  /\ \E ordered \in TimestampOrders({e \in events :
                       InWindow(e, handlers[h].r.start, handlers[h].r.end)}) :
       LET rows == LimitOffset(ordered, handlers[h].r.batch_size, handlers[h].r.offset)
       IN handlers' = [handlers EXCEPT
                         ![h].rows = rows,
                         ![h].pc = IF Len(rows) = 0 THEN "refresh" ELSE "compute"]
  /\ UNCHANGED <<dbVars, pc, logsVars, mergeVars, catalog, pricing, run, history, hookVars, sockVars, storeVars, poolVars>>

\* the rows have arrived: results.batches++, the new costs from the pricing
\* cache as it is now; with no update to write, offset += batch_size and the
\* deadline check follow at once
ComputeBatch(h, timedOut) ==
  /\ handlers[h].pc = "compute"
  /\ LET r == handlers[h].r
         rows == handlers[h].rows
         updates == updatesOf(rows)
         counted == [r EXCEPT !.batches = r.batches + 1,
                              !.processed = r.processed + Len(rows),
                              !.updates = updates]
     IN IF Len(updates) = 0
          THEN handlers' = [handlers EXCEPT
                              ![h].r = afterBatch(counted, timedOut),
                              ![h].rows = <<>>,
                              ![h].pc = IF timedOut THEN "refresh" ELSE "select"]
          ELSE /\ ~timedOut
               /\ handlers' = [handlers EXCEPT ![h].r = counted, ![h].rows = <<>>,
                                               ![h].pc = "write"]
  /\ UNCHANGED <<dbVars, pc, logsVars, mergeVars, catalog, pricing, run, history, hookVars, sockVars, storeVars, poolVars>>

\* await poolClient.query(updateSql, updateValues): the database runs the
\* UPDATE; then offset += batch_size and the deadline check
WriteBatch(h, updateFails, timedOut) ==
  /\ handlers[h].pc = "write"
  /\ events' = eventsAfterWrite(events, handlers[h].r.updates, updateFails)
  /\ handlers' = [handlers EXCEPT
                    ![h].r = afterBatch(batchWriteResult(handlers[h].r, updateFails), timedOut),
                    ![h].pc = IF timedOut THEN "refresh" ELSE "select"]
  /\ UNCHANGED <<rollupModel, rollupAgent, rollupDaily, pc, logsVars, mergeVars,
                 catalog, pricing, run, history, hookVars, sockVars, storeVars, poolVars>>

\* the next CALL refresh_continuous_aggregate of the invocation; after the
\* last one the response is sent
RefreshNext(h) ==
  /\ handlers[h].pc = "refresh"
  /\ LET r == handlers[h].r
         i == Len(r.caRefreshResults) + 1
         ca == cas[i]
     IN /\ handlers' = [handlers EXCEPT
                          ![h].r.caRefreshResults =
                             Append(r.caRefreshResults, [ca |-> ca, status |-> "refreshed"]),
                          ![h].r.status = IF i = Len(cas) THEN 200 ELSE 0,
                          ![h].pc = IF i = Len(cas) THEN "done" ELSE "refresh"]
        /\ rollupDaily' = IF ca = "llm_events_daily_ca"
                            THEN refreshed(rollupDaily, MaterializeDaily(events), r.start, r.end)
                            ELSE rollupDaily
        /\ rollupModel' = IF ca = "llm_events_daily_by_model_ca"
                            THEN refreshed(rollupModel, MaterializeByModel(events), r.start, r.end)
                            ELSE rollupModel
        /\ rollupAgent' = IF ca = "llm_events_daily_by_agent_ca"
                            THEN refreshed(rollupAgent, MaterializeByAgent(events), r.start, r.end)
                            ELSE rollupAgent
  /\ UNCHANGED <<events, pc, logsVars, mergeVars, catalog, pricing, run, history, hookVars, sockVars, storeVars, poolVars>>

InitRace ==
  /\ events \in RaceTables
  /\ rollupModel = MaterializeByModel(events)
  /\ rollupAgent = MaterializeByAgent(events)
  /\ rollupDaily = MaterializeDaily(events)
  /\ pc = "idle"
  /\ req = NoRequest
  /\ partialRanges = <<>>
  /\ queries = <<>>
  /\ resp = NoResponse
  /\ mergeIn = NoMergeInput
  /\ mergeOut = <<>>
  /\ catalog = PriceLists[1]
  /\ pricing = PriceLists[1]
  /\ run = NoRun
  /\ history = <<>>
  /\ handlers = [h \in Handlers |-> NoHandler]
  /\ NoHook
  /\ NoSockets
  /\ NoStore
  /\ NoPool

NextRace ==
  \/ \E p \in Range(PriceLists) : UpdateCatalog(p)
  \/ \E h \in Handlers, w \in RaceWindows, b \in 1..MaxBatch : BeginRun(h, w[1], w[2], b)
  \/ \E h \in Handlers : SelectBatch(h)
  \/ \E h \in Handlers, t \in BOOLEAN : ComputeBatch(h, t)
  \/ \E h \in Handlers, f \in BOOLEAN, t \in BOOLEAN : WriteBatch(h, f, t)
  \/ \E h \in Handlers : RefreshNext(h)

SpecRace == InitRace /\ [][NextRace]_vars

\* C24: when two runs over overlapping ranges have both completed by
\* exhaustion with empty error lists, over a table in which no two events
\* share a timestamp, every event in the overlap of the ranges has the
\* cost_total the pricing cache, loaded last at the start of the later run,
\* gives for it (within 1e-6).
BothCompleted ==
  \A h \in Handlers :
    /\ handlers[h].pc = "done" /\ handlers[h].r.status = 200
    /\ handlers[h].r.errors = <<>>
DistinctTimestamps == \A e1, e2 \in events : e1.timestamp = e2.timestamp => e1 = e2
InOverlap(e) == \A h \in Handlers : InWindow(e, handlers[h].r.start, handlers[h].r.end)

C24_LastPricingWinsInOverlap ==
  (BothCompleted /\ DistinctTimestamps) =>
    \A e \in events :
      InOverlap(e) => Abs(e.cost_total - calculateCostSync(e)) <= Epsilon

\* C25: a grouped response is tagged continuous_aggregate only when the
\* full-bucket range is non-empty and the rollup query and every partial
\* query succeeded; every other successful response is tagged base_table and
\* its rows are a page of one raw aggregation over the whole window [start,
\* end], issued as the last query.
RollupServed ==
  /\ hasFullBuckets(req.start, req.end)
  /\ RollupRead
  /\ \A i \in 1..Len(queries) : queries[i].ok
PartialThrew == \E i \in 1..Len(queries) : queries[i].tbl = "llm_events" /\ ~queries[i].ok

C25_SourceTagTellsTheSource ==
  (Responded /\ resp.status = 200) =>
    /\ resp.source \in {"continuous_aggregate", "base_table"}
    /\ resp.source = "continuous_aggregate" <=> RollupServed
    /\ resp.source = "base_table" =>
         /\ queries[Len(queries)] = [tbl |-> "llm_events", lo |-> req.start,
                                     hi |-> req.end, ok |-> TRUE]
         /\ \E ordered \in CostDescOrders(RawAgg(events, req.start, req.end,
                                                 groupFieldsOf(req.group_by))) :
              resp.aggregations
                = Aggregations(Page(ordered, req.offset, req.limit),
                               groupFieldsOf(req.group_by))

\* a partial query threw, and the response holds the rows of two groups
C25_Witness ==
  /\ Responded /\ resp.status = 200 /\ PartialThrew
  /\ resp.source = "base_table"
  /\ Len(resp.aggregations) = 2

\* ------------------------------------------------- useUpdateUISettings
\* One instance of the hook in a mounted component.  Time is in ticks of
\* 250 ms.  A timeout runs at the tick it is due, before anything else that
\* happens at that tick.
MaxCalls == 3
MaxClock == 5

\* setTimeout(.., 500)
Debounce == 2

SettingValues(k) ==
  IF k = "sidebarCollapsed" THEN {"true", "false"} ELSE {"24h"}

\* the arguments of debouncedUpdate: any part of the settings, {} included
UpdatePayloads ==
  {u \in [SettingKeys -> {"true", "false", "24h", Unset}] :
     \A k \in SettingKeys : u[k] \in SettingValues(k) \cup {Unset}}

\* mutant: the new updates replace the pending ones
pendingReplaced(pending, updates) == updates

\* pendingUpdates.current = { ...pendingUpdates.current, ...updates }
pendingAfterCall(pending, updates) == spread(pending, updates)

\* clearTimeout(id)
clearTimeout(set, id) == {t \in set : t.id # id}

TimerDue == \E t \in timers : t.due <= now

\* debouncedUpdate(updates): merge, clear the timeout, set a new one
DebouncedUpdate(updates) ==
  /\ unmountedAt < 0
  /\ Len(calls) < MaxCalls
  /\ ~TimerDue
  /\ pendingUpdates' = pendingAfterCall(pendingUpdates, updates)
  /\ timers' = (IF debounceRef # 0 THEN clearTimeout(timers, debounceRef) ELSE timers)
                 \cup {[id |-> Len(calls) + 1, due |-> now + Debounce]}
  /\ debounceRef' = Len(calls) + 1
  /\ calls' = Append(calls, [updates |-> updates, at |-> now])
  /\ UNCHANGED <<dbVars, pc, logsVars, mergeVars, recalcVars, sockVars, storeVars, poolVars, now, unmountedAt, mutations>>

\* the callback of the timeout: toSend = { ...pending }, pending = {},
\* mutate(toSend); debounceRef.current keeps the id of the timeout
TimeoutRuns ==
  \E t \in timers :
    /\ t.due <= now
    /\ timers' = timers \ {t}
    /\ mutations' = Append(mutations, [payload |-> pendingUpdates, at |-> now])
    /\ pendingUpdates' = NoUpdates
    /\ UNCHANGED <<dbVars, pc, logsVars, mergeVars, recalcVars, sockVars, storeVars, poolVars, now, unmountedAt,
                   debounceRef, calls>>

\* the cleanup of the effect when the component unmounts
Unmount ==
  /\ unmountedAt < 0
  /\ ~TimerDue
  /\ unmountedAt' = now
  /\ IF debounceRef # 0
       THEN /\ timers' = clearTimeout(timers, debounceRef)
            /\ mutations' = IF objectKeys(pendingUpdates) # {}
                               THEN Append(mutations, [payload |-> pendingUpdates, at |-> now])
                               ELSE mutations
       ELSE UNCHANGED <<timers, mutations>>
  /\ UNCHANGED <<dbVars, pc, logsVars, mergeVars, recalcVars, sockVars, storeVars, poolVars, now, debounceRef,
                 pendingUpdates, calls>>

\* 250 ms pass
Tick ==
  /\ now < MaxClock
  /\ ~TimerDue
  /\ now' = now + 1
  /\ UNCHANGED <<dbVars, pc, logsVars, mergeVars, recalcVars, sockVars, storeVars, poolVars, unmountedAt, debounceRef,
                 timers, pendingUpdates, mutations, calls>>

InitHook ==
  /\ events = {}
  /\ rollupModel = {}
  /\ rollupAgent = {}
  /\ rollupDaily = {}
  /\ pc = "idle"
  /\ req = NoRequest
  /\ partialRanges = <<>>
  /\ queries = <<>>
  /\ resp = NoResponse
  /\ mergeIn = NoMergeInput
  /\ mergeOut = <<>>
  /\ catalog = PriceLists[1]
  /\ pricing = PriceLists[1]
  /\ run = NoRun
  /\ history = <<>>
  /\ handlers = <<>>
  /\ NoHook
  /\ NoSockets
  /\ NoStore
  /\ NoPool

NextHook ==
  \/ \E u \in UpdatePayloads : DebouncedUpdate(u)
  \/ TimeoutRuns
  \/ Unmount
  \/ Tick

SpecHook == InitHook /\ [][NextHook]_vars

\* the calls fall into bursts: a burst ends with the last call, or with a
\* call that the next one follows by 500 ms or more
Gap(i) == calls[i + 1].at - calls[i].at
BurstEnds == {i \in 1..Len(calls) : i = Len(calls) \/ Gap(i) >= Debounce}
BurstStart(i) ==
  CHOOSE k \in 1..i :
    /\ \A j \in k..(i - 1) : Gap(j) < Debounce
    /\ k = 1 \/ Gap(k - 1) >= Debounce
\* for every key the value of the latest call of the burst that set it
BurstPayload(i) ==
  [key \in SettingKeys |->
     LET setters == {j \in BurstStart(i)..i : calls[j].updates[key] # Unset}
     IN IF setters = {} THEN Unset ELSE calls[SetMax(setters)].updates[key]]
\* the component was unmounted while the timeout of the burst was pending
Flushed(i) == unmountedAt >= 0 /\ unmountedAt < calls[i].at + Debounce
\* the bursts whose mutation is due: a flushed burst that holds updates, a
\* burst that a later call has followed, the last burst when its timeout is
\* no longer waiting
SentBursts ==
  {i \in BurstEnds :
     IF Flushed(i) THEN objectKeys(BurstPayload(i)) # {}
     ELSE i < Len(calls) \/ timers = {}}
ExpectedMutation(i) ==
  [payload |-> BurstPayload(i),
   at |-> IF Flushed(i) THEN unmountedAt ELSE calls[i].at + Debounce]
ExpectedMutations ==
  [n \in 1..Cardinality(SentBursts) |->
     ExpectedMutation(CHOOSE i \in SentBursts : Cardinality({j \in SentBursts : j <= i}) = n)]

\* C26: the mutations sent are exactly one per burst of debouncedUpdate calls
\* less than 500 ms apart, sent 500 ms after the last call of the burst (or at
\* the unmount, when the component unmounts before that and updates are
\* pending), each holding for every key the value of the latest call of the
\* burst that set it; after the unmount no timeout is left to run.
C26_OneMutationPerBurst ==
  /\ mutations = ExpectedMutations
  /\ unmountedAt >= 0 => timers = {}
  /\ \A t \in timers : now <= t.due

\* a burst of calls that set a key twice and another key once was sent by the
\* timeout, and a later call was sent by the unmount
C26_Witness ==
  /\ Len(calls) = 3 /\ Len(mutations) = 2
  /\ Gap(1) < Debounce /\ Gap(1) > 0
  /\ calls[1].updates["sidebarCollapsed"] = "true"
  /\ calls[1].updates["performanceDashboardTimeRange"] = "24h"
  /\ calls[2].updates["sidebarCollapsed"] = "false"
  /\ calls[2].updates["performanceDashboardTimeRange"] = Unset
  /\ mutations[1].payload = [sidebarCollapsed |-> "false",
                             performanceDashboardTimeRange |-> "24h"]
  /\ mutations[1].at = calls[2].at + Debounce
  /\ unmountedAt >= 0 /\ mutations[2].at = unmountedAt
  /\ unmountedAt < calls[3].at + Debounce

\* ------------------------------- mergeResults with keys of two group fields
\* the (model, provider) values of the rows: a model or a provider can hold
\* the character | , and a provider can be the empty string or NULL
GroupTuples ==
  { [model |-> "a|b", provider |-> "c"], [model |-> "a", provider |-> "b|c"],
    [model |-> "a", provider |-> ""], [model |-> "a", provider |-> Null],
    [model |-> "b", provider |-> "c"] }

RowStats ==
  { [n |-> 1, avg |-> 10, cost |-> 1, first |-> 0, last |-> 1],
    [n |-> 9, avg |-> 100, cost |-> 2, first |-> 1, last |-> Day] }

KeyedRows ==
  { [ key |-> k,
      request_count |-> c.n,
      total_input_tokens |-> c.n,
      total_output_tokens |-> 2 * c.n,
      total_tokens |-> 3 * c.n,
      total_cost |-> c.cost,
      avg_latency_ms |-> RatOfInt(c.avg),
      first_seen |-> c.first,
      last_seen |-> c.last ]
    : k \in GroupTuples, c \in RowStats }

\* rows of the rollup query and of the partial ranges: a group can come from
\* each of them
InitMergeKeys ==
  /\ events = {}
  /\ rollupModel = {}
  /\ rollupAgent = {}
  /\ rollupDaily = {}
  /\ catalog = PriceLists[1]
  /\ pricing = PriceLists[1]
  /\ run = NoRun
  /\ history = <<>>
  /\ handlers = <<>>
  /\ NoHook
  /\ NoSockets
  /\ NoStore
  /\ NoPool
  /\ req = NoRequest
  /\ partialRanges = <<>>
  /\ queries = <<>>
  /\ resp = NoResponse
  /\ pc = "merge"
  /\ mergeOut = <<>>
  /\ \E n \in 0..MaxRows : \E rows \in [1..n -> KeyedRows], cut \in 0..n :
       mergeIn = [caRows |-> SubSeq(rows, 1, cut), baseRows |-> SubSeq(rows, cut + 1, n),
                  keyFields |-> <<"model", "provider">>]

SpecMergeKeys == InitMergeKeys /\ [][NextMerge]_vars

\* the same rows in the order p, the first cut of them given as caRows
Reordered(p, cut) ==
  LET rows == [i \in 1..Len(MergeInputs) |-> MergeInputs[p[i]]]
  IN mergeResults(SubSeq(rows, 1, cut), SubSeq(rows, cut + 1, Len(rows)), mergeIn.keyFields)

\* C27: the set of rows mergeResults returns is the same for every order of
\* the input rows and every split of them between caRows and baseRows.
C27_MergeIsOrderIndependent ==
  Merged =>
    \A p \in Permutations(1..Len(MergeInputs)), cut \in 0..Len(MergeInputs) :
      Range(Reordered(p, cut)) = Range(mergeOut)

\* C28: every group key of an input row has exactly one output row, whose
\* counts, token sums and total_cost are the sums over the input rows of that
\* key, whose first_seen is their minimum and whose last_seen their maximum.
InputKeys == {MergeInputs[i].key : i \in 1..Len(MergeInputs)}
SumOver(I, field) == Sum([i \in I |-> MergeInputs[i][field]], I)

C28_SumsMinMaxPerKey ==
  Merged =>
    \A k \in InputKeys :
      /\ Cardinality({j \in 1..Len(mergeOut) : mergeOut[j].key = k}) = 1
      /\ \A j \in 1..Len(mergeOut) :
           mergeOut[j].key = k =>
             LET I == RowsOfKey(k)
             IN /\ mergeOut[j].request_count = SumOver(I, "request_count")
                /\ mergeOut[j].total_input_tokens = SumOver(I, "total_input_tokens")
                /\ mergeOut[j].total_output_tokens = SumOver(I, "total_output_tokens")
                /\ mergeOut[j].total_tokens = SumOver(I, "total_tokens")
                /\ mergeOut[j].total_cost = SumOver(I, "total_cost")
                /\ mergeOut[j].first_seen = SetMin({MergeInputs[i].first_seen : i \in I})
                /\ mergeOut[j].last_seen = SetMax({MergeInputs[i].last_seen : i \in I})

\* C29: a row is queued for update only if its recomputed cost differs from
\* its stored cost_total by more than 1e-6; an UPDATE is issued only for a
\* batch with queued rows and carries exactly the queued rows; a batch with no
\* queued row issues no UPDATE and leaves updated as it is.
Fetched == pc = "fetch" /\ Len(queries') = Len(queries) + 1 /\ queries'[Len(queries')].ok
QueuedKeys(r) == {UpdateKey(r.updates[i]) : i \in 1..Len(r.updates)}
OutOfTolerance(e) == Abs(calculateCostSync(e) - e.cost_total) > Epsilon
UpdateSent == Len(queries') = Len(queries) + 1 /\ queries'[Len(queries')].kind = "update"

C29_OnlyChangedRowsAreWritten ==
  [][ /\ Fetched =>
           /\ \A k \in QueuedKeys(run') :
                /\ k \in Range(queries'[Len(queries')].keys)
                /\ \A e \in events : EventKey(e) = k => OutOfTolerance(e)
           /\ QueuedKeys(run') = {} => pc' # "update" /\ run'.updated = run.updated
      /\ UpdateSent =>
           /\ pc = "update" /\ run.updates # <<>>
           /\ Range(queries'[Len(queries')].keys) = QueuedKeys(run)
      /\ events' # events => UpdateSent
      /\ run'.updated # run.updated => UpdateSent ]_vars

\* a run of two batches: the row of one was within the tolerance and no
\* statement was issued for it, the row of the other was rewritten
C29_Witness ==
  /\ Recalculated /\ run.batches = 2 /\ run.processed = 2 /\ run.updated = 1
  /\ Cardinality({i \in 1..Len(queries) : queries[i].kind = "update"}) = 1
  /\ \E e \in events :
       /\ InWindow(e, run.start, run.end)
       /\ EventKey(e) \in FetchedKeys \ WrittenKeys
       /\ Abs(calculateCostSync(e) - e.cost_total) = Epsilon

\* C30: in a run that ends on an empty fetch, every event with timestamp in
\* [start, end] is returned by exactly one batch fetch, none skipped and none
\* fetched twice, also when events share a timestamp across a batch boundary.
FetchesOf(e) ==
  {i \in 1..Len(queries) :
     /\ queries[i].kind = "select" /\ queries[i].ok
     /\ EventKey(e) \in Range(queries[i].keys)}

C30_EachEventFetchedOnce ==
  (Recalculated /\ EndedByEmptyFetch) =>
    \A e \in events :
      InWindow(e, run.start, run.end) => Cardinality(FetchesOf(e)) = 1

\* ---------------------------------- one run, every awaited query settles
\* the handler is one async function: once the promise it awaits resolves or
\* rejects, its next statement runs, so a step that is possible is taken
SpecRunFair == InitRun /\ [][NextRun]_vars /\ WF_vars(NextRun)

Running == pc \in {"fetch", "update"}
LoopLeft == pc \in {"refresh", "recalculated"} /\ run.status # 400
Completed == EndedByEmptyFetch
PartialTimeout == TimedOut
Failed == run.status = 500
TerminalStates ==
  Cardinality({i \in 1..3 : <<Completed, PartialTimeout, Failed>>[i]})
InRangeEvents == {e \in events : InWindow(e, run.start, run.end)}
CeilDiv(n, d) == (n + d - 1) \div d
BatchStatement ==
  /\ Len(queries') = Len(queries) + 1
  /\ queries'[Len(queries')].kind \in {"select", "update"}

\* C31: every run with batch_size >= 1 over a finite table leaves Running and
\* reaches exactly one of Completed (empty fetch), PartialTimeout (deadline)
\* and Failed (exception); it makes at most ceil(N / batch_size) + 1 fetches
\* for N in-range events, and once the loop is left no batch is fetched or
\* written any more.
C31_RunTerminates ==
  /\ [](/\ Running => TerminalStates = 0
        /\ LoopLeft => TerminalStates = 1
        /\ (Running \/ LoopLeft) =>
             Len(Selects) <= CeilDiv(Cardinality(InRangeEvents), run.batch_size) + 1)
  /\ [][LoopLeft => ~BatchStatement /\ events' = events /\ LoopLeft']_vars
  /\ (Running ~> LoopLeft)

\* a run over two in-range events with batch_size 1 that took the three
\* fetches the bound allows and ended on the empty one
C31_Witness ==
  /\ Recalculated /\ Completed /\ run.batch_size = 1
  /\ Cardinality(InRangeEvents) = 2 /\ Len(Selects) = 3

\* C32: batches are handled one after another and the deadline is evaluated
\* only after the batch's single multi-row UPDATE was attempted: between
\* batches no queued update is pending, an UPDATE applies all queued updates of
\* its batch or none, and a batch is never left between its fetch and its write.
WarningAdded == Warnings(run') > Warnings(run)

C32_BatchesAreAtomic ==
  /\ [](pc # "update" => run.updates = <<>>)
  /\ [][ /\ pc = "update" => UpdateSent
         /\ UpdateSent =>
              /\ pc = "update" /\ pc' # "update"
              /\ queries'[Len(queries')].ok => events' = applyUpdates(events, run.updates)
              /\ ~queries'[Len(queries')].ok => events' = events
         /\ Fetched => run.updates = <<>>
         /\ WarningAdded =>
              /\ pc' = "refresh" /\ run'.updates = <<>>
              /\ UpdateSent \/ (Fetched /\ queries'[Len(queries')].keys # <<>>) ]_vars

\* a batch of two queued rows was written by one statement, and the deadline
\* was found passed right after it
C32_Witness ==
  /\ Recalculated /\ TimedOut /\ run.batches = 1 /\ run.updated = 2
  /\ \E i \in 1..Len(queries) :
       queries[i].kind = "update" /\ queries[i].ok /\ Len(queries[i].keys) = 2

\* ------------------------------------------- GET /metrics over the table
\* Math.min(parseInt(req.query.days || "30", 10), 365)
DefaultDays == 30
MaxMetricsDays == 365

\* mutant: the requested number of days is used as it is
metricsDaysUncapped(q) ==
  LET p == parseInt(IF q.kind = "undefined" THEN Number(<<DefaultDays, 1>>) ELSE q)
  IN [nan |-> p.nan, n |-> p.v[1]]

\* days: the requested number, 30 by default, at most 365
metricsDays(q) ==
  LET p == parseInt(IF q.kind = "undefined" THEN Number(<<DefaultDays, 1>>) ELSE q)
  IN [nan |-> p.nan, n |-> Min(p.v[1], MaxMetricsDays)]

\* d.setDate(d.getDate() - days): the same time of day, days calendar days
\* earlier (in a time zone without a clock change in between)
setDateBack(d, days) == d - days * Day

\* CASE WHEN "timestamp" >= $2 THEN 'current' ELSE 'previous' END
periodOf(e, currentStart) ==
  IF e.timestamp >= currentStart THEN "current" ELSE "previous"
\* WHERE "timestamp" >= $1 AND "timestamp" <= $3
periodData(ev, previousStart, nowT) ==
  {e \in ev : e.timestamp >= previousStart /\ e.timestamp <= nowT}

\* PERCENTILE_CONT(pn / pd) WITHIN GROUP (ORDER BY latency_ms): linear
\* interpolation between the two values around position (pn / pd) * (n - 1)
percentileCont(S, pn, pd) ==
  LET sorted == CHOOSE o \in SqlOrders(S) :
                  \A i \in 1..Len(o) - 1 : o[i].latency_ms <= o[i + 1].latency_ms
      n == Len(sorted)
      fl == (pn * (n - 1)) \div pd
      lo == sorted[fl + 1].latency_ms
      hi == sorted[Min(fl + 2, n)].latency_ms
  IN RatAdd(RatOfInt(lo), Rat((pn * (n - 1) - fl * pd) * (hi - lo), pd))

\* one row of aggregated; a period without events has no row, which the
\* handler reads as {}.  The columns user_id, usage_reasoning_tokens and stream
\* are NULL for the events of the model
aggregated(S) ==
  IF S = {} THEN NoRow
  ELSE [ total_requests |-> Number(RatOfInt(Cardinality(S))),
         unique_traces |-> Number(RatOfInt(Cardinality({e.trace_id : e \in S}))),
         unique_users |-> Number(Zero),
         total_input_tokens |-> Number(RatOfInt(Sum([e \in S |-> e.usage_input_tokens], S))),
         total_output_tokens |-> Number(RatOfInt(Sum([e \in S |-> e.usage_output_tokens], S))),
         total_tokens |-> Number(RatOfInt(Sum([e \in S |-> e.usage_total_tokens], S))),
         cached_tokens |-> Number(RatOfInt(Sum([e \in S |-> e.usage_cached_tokens], S))),
         reasoning_tokens |-> Number(Zero),
         total_cost |-> Number(RatOfInt(Sum([e \in S |-> e.cost_total], S))),
         avg_latency_ms |->
           Number(Rat(Sum([e \in S |-> e.latency_ms], S), Cardinality(S))),
         p50_latency_ms |-> Number(percentileCont(S, 50, 100)),
         p95_latency_ms |-> Number(percentileCont(S, 95, 100)),
         p99_latency_ms |-> Number(percentileCont(S, 99, 100)),
         max_latency_ms |-> Number(RatOfInt(SetMax({e.latency_ms : e \in S}))),
         streaming_requests |-> Number(Zero) ]

\* GET /metrics?days=q at time nowT: the two period starts, the one query over
\* both periods, the response.  With days NaN the dates are invalid and
\* toISOString throws before the query.  queryFails: the query throws
GetMetricsOverTable(nowT, q, queryFails) ==
  /\ pc = "idle"
  /\ pc' = "responded"
  /\ LET days == metricsDays(q)
         currentStart == setDateBack(nowT, days.n)
         previousStart == setDateBack(currentStart, days.n)
         rows == periodData(events, previousStart, nowT)
         current == {e \in rows : periodOf(e, currentStart) = "current"}
         previous == {e \in rows : periodOf(e, currentStart) = "previous"}
     IN IF days.nan
          THEN /\ queries' = queries
               /\ resp' = [status |-> 500, error |-> "metrics_failed"]
          ELSE /\ queries' = Append(queries,
                                [tbl |-> "llm_events", kind |-> "metrics", days |-> q,
                                 now |-> nowT,
                                 current_keys |-> {EventKey(e) : e \in current},
                                 previous_keys |-> {EventKey(e) : e \in previous},
                                 current |-> aggregated(current),
                                 previous |-> aggregated(previous),
                                 ok |-> ~queryFails])
               /\ resp' = IF queryFails THEN [status |-> 500, error |-> "metrics_failed"]
                          ELSE metricsOf(aggregated(current), aggregated(previous))
  /\ UNCHANGED <<dbVars, req, partialRanges, mergeVars, recalcVars, hookVars, sockVars, storeVars, poolVars>>

\* the table: up to MaxEvents events at any times
PeriodTables ==
  {S \in SUBSET {[Templates[i] EXCEPT !.timestamp = t] : i \in 1..Len(Templates), t \in Times} :
     Cardinality(S) <= MaxEvents}
\* the request times: the end of the modelled time line, and a time from
\* which the modelled time line lies about MaxMetricsDays days back
RequestTimes == {MaxTime - 1, MaxMetricsDays * Day + Day + 1}
DaysQueries ==
  {Undefined, Text} \cup
  {Number(RatOfInt(d)) : d \in {1, 2, MaxMetricsDays, MaxMetricsDays + 1}}

InitPeriods ==
  /\ events \in PeriodTables
  /\ rollupModel = MaterializeByModel(events)
  /\ rollupAgent = MaterializeByAgent(events)
  /\ rollupDaily = MaterializeDaily(events)
  /\ pc = "idle"
  /\ req = NoRequest
  /\ partialRanges = <<>>
  /\ queries = <<>>
  /\ resp = NoResponse
  /\ mergeIn = NoMergeInput
  /\ mergeOut = <<>>
  /\ catalog = PriceLists[1]
  /\ pricing = PriceLists[1]
  /\ run = NoRun
  /\ history = <<>>
  /\ handlers = <<>>
  /\ NoHook
  /\ NoSockets
  /\ NoStore
  /\ NoPool

NextPeriods ==
  /\ pc = "idle"
  /\ \E nowT \in RequestTimes, q \in DaysQueries, f \in BOOLEAN :
       GetMetricsOverTable(nowT, q, f)

SpecPeriods == InitPeriods /\ [][NextPeriods]_vars

\* the query of an answered request, and the periods a number of days gives
PeriodsQueried == pc = "responded" /\ Len(queries) = 1 /\ queries[1].ok
RequestedDays == parseInt(queries[1].days).v[1]
EffectiveDays == Min(RequestedDays, MaxMetricsDays)
InCurrent(e, d) ==
  e.timestamp >= queries[1].now - d * Day /\ e.timestamp <= queries[1].now
InPrevious(e, d) ==
  e.timestamp >= queries[1].now - 2 * d * Day /\ e.timestamp < queries[1].now - d * Day
PeriodsAre(d) ==
  \A e \in events :
    /\ EventKey(e) \in queries[1].current_keys <=> InCurrent(e, d)
    /\ EventKey(e) \in queries[1].previous_keys <=> InPrevious(e, d)

\* C33 as stated: for days >= 1 the periods are current = [now - days, now]
\* and previous = [now - 2*days, now - days) for the requested number of days.
C33_PeriodsOfRequestedDays ==
  (PeriodsQueried /\ queries[1].days.kind = "number" /\ RequestedDays >= 1) =>
    PeriodsAre(RequestedDays)

\* C33 amended: for days >= 1 the periods are current = [now - d, now] and
\* previous = [now - 2*d, now - d) with d = min(days, 365): every event in
\* [now - 2*d, now] is aggregated in exactly one period, an event exactly at
\* now - d in current only, and no event outside is aggregated.
C33_PeriodsOfCappedDays ==
  (PeriodsQueried /\ queries[1].days.kind = "number" /\ RequestedDays >= 1) =>
    /\ PeriodsAre(EffectiveDays)
    /\ queries[1].current_keys \cap queries[1].previous_keys = {}
    /\ queries[1].current.total_requests = 
         (IF queries[1].current_keys = {} THEN Undefined
          ELSE Number(RatOfInt(Cardinality(queries[1].current_keys))))
    /\ queries[1].previous.total_requests = 
         (IF queries[1].previous_keys = {} THEN Undefined
          ELSE Number(RatOfInt(Cardinality(queries[1].previous_keys))))

\* a request for one day with an event exactly at now - days, one before it
\* inside the previous period
C33_Witness ==
  /\ PeriodsQueried /\ queries[1].days.kind = "number" /\ RequestedDays = 1
  /\ \E e \in events :
       /\ e.timestamp = queries[1].now - Day
       /\ EventKey(e) \in queries[1].current_keys
  /\ queries[1].previous_keys # {}

\* ------------------------------------------------ the control-plane sockets
\* a JavaScript Map is the sequence of its entries in insertion order
mapHas(m, k) == \E i \in 1..Len(m) : m[i].key = k
mapGet(m, k) == m[CHOOSE i \in 1..Len(m) : m[i].key = k].val
mapSet(m, k, v) ==
  IF mapHas(m, k)
    THEN [i \in 1..Len(m) |-> IF m[i].key = k THEN [key |-> k, val |-> v] ELSE m[i]]
    ELSE Append(m, [key |-> k, val |-> v])
mapDelete(m, k) == SelectSeq(m, LAMBDA e : e.key # k)
mapKeys(m) == {m[i].key : i \in 1..Len(m)}

MaxSockClock == 3
MaxSubscribers == 2
\* HTTP_AGENT_TTL_MS = 60000, in ticks of 30 s
HTTP_AGENT_TTL == 2

Teams == {"team1", "team2"}
\* the sockets of the model connect with tokens of one team, as one instance
SocketTeams == {"team1"}
SocketInstances == {"i1"}
\* the agents that send heartbeats over HTTP
HttpAgents == {<<"team1", "i1">>, <<"team1", "i2">>, <<"team2", "i1">>}

\* connectedInstances.get(team), the empty Map when the team has none
wsInstancesOf(ci, team) == IF mapHas(ci, team) THEN mapGet(ci, team) ELSE <<>>
httpInstancesOf(hi, team) == IF mapHas(hi, team) THEN mapGet(hi, team) ELSE <<>>

\* broadcastAgentStatus: the agent status goes to the llm-events room of the
\* team (globalControlEmitter is set when the namespace is initialised)
toRoom(status) == [to |-> "room", message |-> status]
\* socket.emit("message", status)
toSocket(status) == [to |-> "socket", message |-> status]

\* getAgentStatusForTeam: the WebSocket instances, then the HTTP-only ones
getAgentStatusForTeam(ci, hi, team) ==
  LET ws == wsInstancesOf(ci, team)
      http == httpInstancesOf(hi, team)
      instances ==
        [i \in 1..Len(ws) |->
           [instance_id |-> ws[i].val.instanceId, connection_type |-> "websocket"]]
        \o [i \in 1..Len(http) |->
             [instance_id |-> http[i].key, connection_type |-> "http"]]
  IN [type |-> "agent-status", team |-> team, active |-> Len(instances) > 0,
      count |-> Len(instances), instances |-> instances]

\* getTeamsWithSubscribers, in the order of the Map
getTeamsWithSubscribers(counts) ==
  LET with == SelectSeq(counts, LAMBDA e : e.val > 0)
  IN [i \in 1..Len(with) |-> with[i].key]

\* the connection handler up to its first await: the socket is tracked under
\* its team and the initial policy is requested
Connection(s, team, inst) ==
  /\ sockets[s].pc = "new"
  /\ sockets' = [sockets EXCEPT ![s] =
                   [pc |-> "policy", teamId |-> team, sdkInstanceId |-> inst,
                    connected |-> TRUE, subscribed |-> FALSE]]
  /\ connectedInstances' =
       mapSet(connectedInstances, team,
              mapSet(wsInstancesOf(connectedInstances, team), s, [instanceId |-> inst]))
  /\ emitted' = <<>>
  /\ UNCHANGED <<dbVars, pc, logsVars, mergeVars, recalcVars, hookVars, storeVars, poolVars,
                 httpInstances, teamSubscriberCounts, clock>>

\* getPolicy has resolved or rejected: the policy is sent (or the error is
\* logged) and the listeners of the socket are registered
PolicySent(s) ==
  /\ sockets[s].pc = "policy"
  /\ sockets' = [sockets EXCEPT ![s].pc = "listening"]
  /\ emitted' = <<>>
  /\ UNCHANGED <<dbVars, pc, logsVars, mergeVars, recalcVars, hookVars, storeVars, poolVars,
                 connectedInstances, httpInstances, teamSubscriberCounts, clock>>

\* the disconnect listener: the entry of the socket is deleted, and the Map of
\* the team when it is empty
onDisconnect(ci, team, s) ==
  IF mapHas(ci, team)
    THEN LET instances == mapDelete(mapGet(ci, team), s)
         IN IF Len(instances) = 0 THEN mapDelete(ci, team)
            ELSE mapSet(ci, team, instances)
    ELSE ci

\* the connection of the socket closes: the socket leaves its rooms and emits
\* "disconnect" once, to the listeners registered at that moment
Disconnect(s) ==
  /\ sockets[s].connected
  /\ sockets' = [sockets EXCEPT ![s].connected = FALSE, ![s].subscribed = FALSE]
  /\ connectedInstances' =
       IF sockets[s].pc = "listening"
         THEN onDisconnect(connectedInstances, sockets[s].teamId, s)
         ELSE connectedInstances
  /\ emitted' = <<>>
  /\ UNCHANGED <<dbVars, pc, logsVars, mergeVars, recalcVars, hookVars, storeVars, poolVars,
                 httpInstances, teamSubscriberCounts, clock>>

\* teamSubscriberCounts.get(teamId) || 0
countOf(counts, team) == IF mapHas(counts, team) THEN mapGet(counts, team) ELSE 0

\* "subscribe-llm-events": the socket joins the room, the count of the team
\* grows by one, the agent status is sent to the socket
Subscribe(s) ==
  /\ sockets[s].pc = "listening" /\ sockets[s].connected
  /\ countOf(teamSubscriberCounts, sockets[s].teamId) < MaxSubscribers
  /\ sockets' = [sockets EXCEPT ![s].subscribed = TRUE]
  /\ teamSubscriberCounts' =
       mapSet(teamSubscriberCounts, sockets[s].teamId,
              countOf(teamSubscriberCounts, sockets[s].teamId) + 1)
  /\ emitted' = <<toSocket(getAgentStatusForTeam(connectedInstances, httpInstances,
                                                 sockets[s].teamId))>>
  /\ UNCHANGED <<dbVars, pc, logsVars, mergeVars, recalcVars, hookVars, storeVars, poolVars,
                 connectedInstances, httpInstances, clock>>

\* "unsubscribe-llm-events": the socket leaves the room, a positive count of
\* the team shrinks by one
Unsubscribe(s) ==
  /\ sockets[s].pc = "listening" /\ sockets[s].connected
  /\ sockets' = [sockets EXCEPT ![s].subscribed = FALSE]
  /\ teamSubscriberCounts' =
       IF countOf(teamSubscriberCounts, sockets[s].teamId) > 0
         THEN mapSet(teamSubscriberCounts, sockets[s].teamId,
                     countOf(teamSubscriberCounts, sockets[s].teamId) - 1)
         ELSE teamSubscriberCounts
  /\ emitted' = <<>>
  /\ UNCHANGED <<dbVars, pc, logsVars, mergeVars, recalcVars, hookVars, storeVars, poolVars,
                 connectedInstances, httpInstances, clock>>

\* whether an instance of the team is tracked through a socket
trackedViaWebSocket(ci, team, inst) ==
  \E i \in 1..Len(wsInstancesOf(ci, team)) :
    wsInstancesOf(ci, team)[i].val.instanceId = inst

\* registerHttpAgent: a heartbeat over HTTP.  An instance tracked through a
\* socket only has its heartbeat time updated there (the times of socket
\* entries are not part of the model); a new HTTP agent is broadcast
registerHttpAgent(team, inst) ==
  /\ IF trackedViaWebSocket(connectedInstances, team, inst)
       THEN /\ httpInstances' = httpInstances
            /\ emitted' = <<>>
       ELSE LET known == mapHas(httpInstancesOf(httpInstances, team), inst)
                after == mapSet(httpInstances, team,
                                mapSet(httpInstancesOf(httpInstances, team), inst,
                                       [lastHeartbeat |-> clock]))
            IN /\ httpInstances' = after
               /\ emitted' = IF known THEN <<>>
                             ELSE <<toRoom(getAgentStatusForTeam(connectedInstances, after, team))>>
  /\ UNCHANGED <<dbVars, pc, logsVars, mergeVars, recalcVars, hookVars, storeVars, poolVars,
                 sockets, connectedInstances, teamSubscriberCounts, clock>>

\* mutant: an agent is stale from the TTL on
isStaleAtTtl(info, nowT) == nowT - info.lastHeartbeat >= HTTP_AGENT_TTL

\* now - info.lastHeartbeat.getTime() > HTTP_AGENT_TTL_MS
isStale(info, nowT) == nowT - info.lastHeartbeat > HTTP_AGENT_TTL

\* the instances of one team that the cleanup keeps
freshInstances(instances, nowT) == SelectSeq(instances, LAMBDA e : ~isStale(e.val, nowT))

\* cleanupStaleHttpAgents: stale agents are deleted, empty team Maps too, and
\* the teams that lost an agent get the agent status
cleanupStaleHttpAgents ==
  LET cleaned == [i \in 1..Len(httpInstances) |->
                    [key |-> httpInstances[i].key,
                     val |-> freshInstances(httpInstances[i].val, clock)]]
      after == SelectSeq(cleaned, LAMBDA e : Len(e.val) > 0)
      lost == SelectSeq(httpInstances,
                        LAMBDA e : Len(freshInstances(e.val, clock)) < Len(e.val))
  IN /\ httpInstances' = after
     /\ emitted' = [i \in 1..Len(lost) |->
                      toRoom(getAgentStatusForTeam(connectedInstances, after, lost[i].key))]
     /\ UNCHANGED <<dbVars, pc, logsVars, mergeVars, recalcVars, hookVars, storeVars, poolVars,
                    sockets, connectedInstances, teamSubscriberCounts, clock>>

\* broadcastAgentStatusToAllTeams, every 2 s: the agent status of each team
\* with subscribers
broadcastAgentStatusToAllTeams ==
  /\ emitted' =
       [i \in 1..Len(getTeamsWithSubscribers(teamSubscriberCounts)) |->
          toRoom(getAgentStatusForTeam(connectedInstances, httpInstances,
                                       getTeamsWithSubscribers(teamSubscriberCounts)[i]))]
  /\ UNCHANGED <<dbVars, pc, logsVars, mergeVars, recalcVars, hookVars, storeVars, poolVars,
                 sockets, connectedInstances, httpInstances, teamSubscriberCounts, clock>>

\* 30 s pass
TickSockets ==
  /\ clock < MaxSockClock
  /\ clock' = clock + 1
  /\ UNCHANGED <<dbVars, pc, logsVars, mergeVars, recalcVars, hookVars, storeVars, poolVars,
                 sockets, connectedInstances, httpInstances, teamSubscriberCounts, emitted>>

InitSockets ==
  /\ events = {}
  /\ rollupModel = {}
  /\ rollupAgent = {}
  /\ rollupDaily = {}
  /\ pc = "idle"
  /\ req = NoRequest
  /\ partialRanges = <<>>
  /\ queries = <<>>
  /\ resp = NoResponse
  /\ mergeIn = NoMergeInput
  /\ mergeOut = <<>>
  /\ catalog = PriceLists[1]
  /\ pricing = PriceLists[1]
  /\ run = NoRun
  /\ history = <<>>
  /\ handlers = <<>>
  /\ NoHook
  /\ NoSockets
  /\ NoStore
  /\ NoPool

NextSockets ==
  \/ \E s \in SocketIds, team \in SocketTeams, inst \in SocketInstances : Connection(s, team, inst)
  \/ \E s \in SocketIds : PolicySent(s)
  \/ \E s \in SocketIds : Disconnect(s)
  \/ \E s \in SocketIds : Subscribe(s)
  \/ \E s \in SocketIds : Unsubscribe(s)
  \/ \E a \in HttpAgents : registerHttpAgent(a[1], a[2])
  \/ cleanupStaleHttpAgents
  \/ broadcastAgentStatusToAllTeams
  \/ TickSockets

SpecSockets == InitSockets /\ [][NextSockets]_vars

\* C34: after a socket has disconnected its entry is absent from
\* connectedInstances, and no team is left with an empty Map, whenever the
\* disconnect happens, also while the handler still awaits the initial policy.
HasDisconnected(s) == sockets[s].pc # "new" /\ ~sockets[s].connected
TrackedSockets(team) == mapKeys(wsInstancesOf(connectedInstances, team))

C34_DisconnectedSocketUntracked ==
  /\ \A s \in SocketIds : HasDisconnected(s) => s \notin TrackedSockets(sockets[s].teamId)
  /\ \A i \in 1..Len(connectedInstances) : Len(connectedInstances[i].val) > 0

\* C35: teamSubscriberCounts[team] is the number of connected sockets of the
\* team that are in the llm-events room; it is never negative and is 0 once
\* every subscriber has unsubscribed or disconnected, also after a double
\* subscribe or a disconnect without unsubscribe.
Subscribers(team) ==
  {s \in SocketIds : sockets[s].teamId = team /\ sockets[s].connected /\ sockets[s].subscribed}

C35_CountIsNumberOfSubscribers ==
  \A team \in Teams :
    /\ countOf(teamSubscriberCounts, team) >= 0
    /\ countOf(teamSubscriberCounts, team) = Cardinality(Subscribers(team))

\* C36: in no team is an instance id tracked both as a WebSocket instance
\* and as an HTTP-only instance, so the agent status of a team lists no
\* instance under both connection types, for every order of HTTP heartbeats
\* and WebSocket connections.
WebSocketInstances(team) ==
  {wsInstancesOf(connectedInstances, team)[i].val.instanceId :
     i \in 1..Len(wsInstancesOf(connectedInstances, team))}
HttpOnlyInstances(team) == mapKeys(httpInstancesOf(httpInstances, team))
StatusOf(team) == getAgentStatusForTeam(connectedInstances, httpInstances, team)

C36_TrackedOnceOnly ==
  \A team \in Teams :
    /\ WebSocketInstances(team) \cap HttpOnlyInstances(team) = {}
    /\ \A i, j \in 1..StatusOf(team).count :
         StatusOf(team).instances[i].instance_id = StatusOf(team).instances[j].instance_id
           => StatusOf(team).instances[i].connection_type
                = StatusOf(team).instances[j].connection_type

\* C37: an HTTP-only agent whose last heartbeat is at most 60 s old is never
\* removed; a cleanup run removes every agent whose last heartbeat is older
\* than 60 s, deletes the Map of a team that became empty, and broadcasts the
\* agent status to exactly the teams that lost an agent in that run.
TrackedHttp(hi) == {a \in HttpAgents : mapHas(httpInstancesOf(hi, a[1]), a[2])}
HeartbeatAge(hi, a, nowT) == nowT - mapGet(httpInstancesOf(hi, a[1]), a[2]).lastHeartbeat
RemovedAgents == TrackedHttp(httpInstances) \ TrackedHttp(httpInstances')
BroadcastTeams == {emitted'[i].message.team : i \in 1..Len(emitted')}

MAX_EVENTS_BUFFER == 2
MaxAdds == 3
\* the batches of events that arrive over the socket
EventBatches ==
  {<<>>} \cup UNION {[1..n -> {"e1", "e2"}] : n \in 1..(MAX_EVENTS_BUFFER + 1)}

\* mutant: the new events are appended after the buffered ones
combinedOldestFirst(newEvents, buffer) == buffer \o newEvents
\* events.concat(state.eventsBuffer)
combined(newEvents, buffer) == newEvents \o buffer

\* addEvents: the new events go in front, the buffer is cut to its maximum
addEvents(newEvents) ==
  /\ Len(batches) < MaxAdds
  /\ eventsBuffer' =
       IF Len(combined(newEvents, eventsBuffer)) <= MAX_EVENTS_BUFFER
         THEN combined(newEvents, eventsBuffer)
         ELSE slice(combined(newEvents, eventsBuffer), 0, MAX_EVENTS_BUFFER)
  /\ batches' = Append(batches, newEvents)
  /\ UNCHANGED <<dbVars, pc, logsVars, mergeVars, recalcVars, hookVars, sockVars, poolVars>>

\* clearEvents
clearEvents ==
  /\ eventsBuffer' = <<>>
  /\ batches' = <<>>
  /\ UNCHANGED <<dbVars, pc, logsVars, mergeVars, recalcVars, hookVars, sockVars, poolVars>>

InitStore ==
  /\ events = {}
  /\ rollupModel = {}
  /\ rollupAgent = {}
  /\ rollupDaily = {}
  /\ pc = "idle"
  /\ req = NoRequest
  /\ partialRanges = <<>>
  /\ queries = <<>>
  /\ resp = NoResponse
  /\ mergeIn = NoMergeInput
  /\ mergeOut = <<>>
  /\ catalog = PriceLists[1]
  /\ pricing = PriceLists[1]
  /\ run = NoRun
  /\ history = <<>>
  /\ handlers = <<>>
  /\ NoHook
  /\ NoSockets
  /\ NoStore
  /\ NoPool

NextStore ==
  \/ \E b \in EventBatches : addEvents(b)
  \/ clearEvents

SpecStore == InitStore /\ [][NextStore]_vars

\* the batches added since the last clearEvents, the last one first
RECURSIVE NewestFirst(_)
NewestFirst(bs) ==
  IF bs = <<>> THEN <<>> ELSE bs[Len(bs)] \o NewestFirst(SubSeq(bs, 1, Len(bs) - 1))
FirstN(q, n) == IF Len(q) <= n THEN q ELSE SubSeq(q, 1, n)

\* C38: eventsBuffer holds at most MAX_EVENTS_BUFFER events and is the first
\* MAX_EVENTS_BUFFER elements of the batches added since the last clearEvents,
\* concatenated newest batch first: only the oldest events are dropped.
C38_BufferIsNewestEvents ==
  /\ Len(eventsBuffer) <= MAX_EVENTS_BUFFER
  /\ eventsBuffer = FirstN(NewestFirst(batches), MAX_EVENTS_BUFFER)

\* three batches were added, the buffer is full, and events of the first
\* batch have been dropped
C38_Witness ==
  /\ Len(batches) = 3 /\ \A i \in 1..3 : Len(batches[i]) = 1
  /\ batches[1] # batches[3]
  /\ eventsBuffer = batches[3] \o batches[2]

\* ------------------------------------- pool clients of the /tsdb handlers
MaxPoolCalls == 3
PoolHandlers == {"logs", "recalculate-costs"}
\* what the handler's body does once it holds a client: /logs can return
\* 400 invalid_group_by after the connection, /recalculate-costs validates
\* before it
BodyOutcomes(h) ==
  IF h = "logs" THEN {"response", "invalid_group_by", "query_fails"}
                ELSE {"response", "query_fails"}
ClientsOut == 1..pool.connected
TimesReleased(c) == Cardinality({i \in 1..Len(pool.released) : pool.released[i] = c})

\* a request enters its handler: let poolClient: PoolClient | undefined
HandlerStart(h) ==
  /\ call.path \in {"", "done"}
  /\ pool.connected < MaxPoolCalls
  /\ call' = [handler |-> h, path |-> "validate", client |-> 0, outcome |-> ""]
  /\ poolClient' = 0
  /\ UNCHANGED <<pool, dbVars, pc, logsVars, mergeVars, recalcVars, hookVars, sockVars, storeVars>>

\* the checks before connectTeamClient: 401 and 400 return inside the try
Validate(valid) ==
  /\ call.path = "validate"
  /\ call' = IF valid THEN [call EXCEPT !.path = "connect"]
                      ELSE [call EXCEPT !.path = "finally", !.outcome = "invalid_request"]
  /\ UNCHANGED <<pool, poolClient, dbVars, pc, logsVars, mergeVars, recalcVars, hookVars, sockVars, storeVars>>

\* connectTeamClient up to pool.connect(): the pool hands out a client, or
\* getTeamPool / pool.connect throws
poolConnect(connects) ==
  /\ call.path = "connect"
  /\ IF connects
       THEN /\ pool' = [pool EXCEPT !.connected = @ + 1]
            /\ call' = [call EXCEPT !.path = "setup", !.client = pool.connected + 1]
       ELSE /\ pool' = pool
            /\ call' = [call EXCEPT !.path = "finally", !.outcome = "connect_fails"]
  /\ UNCHANGED <<poolClient, dbVars, pc, logsVars, mergeVars, recalcVars, hookVars, sockVars, storeVars>>

\* connectTeamClient after pool.connect(): CREATE SCHEMA, SET search_path and
\* ensureSchema; it returns the client to the handler, or throws with the
\* client still checked out and known to nobody
schemaSetup(succeeds) ==
  /\ call.path = "setup"
  /\ IF succeeds
       THEN /\ poolClient' = call.client
            /\ pool' = pool
            /\ call' = [call EXCEPT !.path = "body"]
       ELSE /\ poolClient' = poolClient
            /\ pool' = pool
            /\ call' = [call EXCEPT !.path = "finally", !.outcome = "setup_fails"]
  /\ UNCHANGED <<dbVars, pc, logsVars, mergeVars, recalcVars, hookVars, sockVars, storeVars>>

\* the rest of the try block: a response, an early return or a throw that
\* the catch answers with 500; all of them go through finally
HandlerBody(outcome) ==
  /\ call.path = "body"
  /\ outcome \in BodyOutcomes(call.handler)
  /\ call' = [call EXCEPT !.path = "finally", !.outcome = outcome]
  /\ UNCHANGED <<pool, poolClient, dbVars, pc, logsVars, mergeVars, recalcVars, hookVars, sockVars, storeVars>>

\* finally { if (poolClient) poolClient.release(); }
HandlerFinally ==
  /\ call.path = "finally"
  /\ pool' = IF poolClient # 0 THEN [pool EXCEPT !.released = Append(@, poolClient)]
                               ELSE pool
  /\ call' = [call EXCEPT !.path = "done"]
  /\ UNCHANGED <<poolClient, dbVars, pc, logsVars, mergeVars, recalcVars, hookVars, sockVars, storeVars>>

InitPool ==
  /\ events = {}
  /\ rollupModel = {}
  /\ rollupAgent = {}
  /\ rollupDaily = {}
  /\ pc = "idle"
  /\ req = NoRequest
  /\ partialRanges = <<>>
  /\ queries = <<>>
  /\ resp = NoResponse
  /\ mergeIn = NoMergeInput
  /\ mergeOut = <<>>
  /\ catalog = PriceLists[1]
  /\ pricing = PriceLists[1]
  /\ run = NoRun
  /\ history = <<>>
  /\ handlers = <<>>
  /\ NoHook
  /\ NoSockets
  /\ NoStore
  /\ NoPool

NextPool ==
  \/ \E h \in PoolHandlers : HandlerStart(h)
  \/ \E valid \in BOOLEAN : Validate(valid)
  \/ \E connects \in BOOLEAN : poolConnect(connects)
  \/ \E succeeds \in BOOLEAN : schemaSetup(succeeds)
  \/ \E outcome \in {"response", "invalid_group_by", "query_fails"} : HandlerBody(outcome)
  \/ HandlerFinally

SpecPool == InitPool /\ [][NextPool]_vars

\* C39: when a /tsdb handler has finished, every connection the pool handed
\* out has been released exactly once, and none is ever released twice, on
\* every path: response, early return after the connection, failing query,
\* failing schema setup inside connectTeamClient.
C39_EveryClientReleasedOnce ==
  /\ \A c \in ClientsOut : TimesReleased(c) <= 1
  /\ call.path = "done" => \A c \in ClientsOut : TimesReleased(c) = 1

\* what does hold: a client that reached the handler is released exactly once
HandlerClientsReleasedOnce ==
  /\ \A c \in ClientsOut : TimesReleased(c) <= 1
  /\ (call.path = "done" /\ call.outcome # "setup_fails") =>
        TimesReleased(call.client) = (IF call.client = 0 THEN 0 ELSE 1)

\* ------------------------------------------- which rows mergeResults merges
\* C40: mergeResults combines two rows into one output row if and only if
\* their group-key tuples are equal field by field: the output has one row for
\* each distinct (model, provider) tuple of the input, also when a value holds
\* the separator | or is null or empty.
OutputKeys == {mergeOut[j].key : j \in 1..Len(mergeOut)}
C40_MergedIffSameTuple ==
  Merged =>
    /\ OutputKeys = InputKeys
    /\ Len(mergeOut) = Cardinality(InputKeys)

====
